---- MODULE Spec2Model ----
(***************************************************************************)
(* Model of the pertype schema library (packages/pertype/src/schema.ts):   *)
(* runtime values, the Schema class hierarchy with is / check / decode,    *)
(* the violation and error model, and the immutable builder.               *)
(*                                                                         *)
(* JavaScript values are tagged records.  A thrown exception is an outcome *)
(* record Throw(e); a normal return is Ok(v).  A path string is kept as    *)
(* the sequence of its '.'-separated segments (so "a.1" is <<"a","1">>     *)
(* and "" is <<"">>); an absent (undefined) path is None.                  *)
(***************************************************************************)
EXTENDS Integers, Sequences, FiniteSets, TLC

VARIABLES schema, input, op, result, insts, arrs, ret, recv, store, awaits

vars == <<schema, input, op, result, insts, arrs, ret, recv, store, awaits>>

-----------------------------------------------------------------------------
(* Bounds *)

\* Longest generated input array
MaxLen == 2

\* Largest number of schema instances on the heap of the builder model
MaxInsts == 3

-----------------------------------------------------------------------------
(* JavaScript values *)

Undefined == [t |-> "undefined"]
Null == [t |-> "null"]
Bool(b) == [t |-> "boolean", b |-> b]
Num(n) == [t |-> "number", n |-> n]
NaN == [t |-> "NaN"]
Str(s) == [t |-> "string", s |-> s]
Arr(a) == [t |-> "array", a |-> a]
Obj(o) == [t |-> "object", o |-> o]
MapV(m) == [t |-> "map", m |-> m]
SetV(e) == [t |-> "set", e |-> e]
\* A Date whose time value is the number d, NaN for an invalid Date
DateV(d) == [t |-> "date", d |-> d]
PromiseV(p) == [t |-> "promise", p |-> p]
\* The states of a Promise
Pending == [state |-> "pending"]
Fulfilled(x) == [state |-> "fulfilled", value |-> x]
Rejected(reason) == [state |-> "rejected", reason |-> reason]
Sym == [t |-> "symbol"]

None == [some |-> FALSE]
Some(x) == [some |-> TRUE, x |-> x]

Ok(v) == [ok |-> TRUE, v |-> v]
Throw(e) == [ok |-> FALSE, e |-> e]

\* typeof value
TypeOf(v) ==
  CASE v.t = "undefined" -> "undefined"
    [] v.t = "boolean" -> "boolean"
    [] v.t \in {"number", "NaN"} -> "number"
    [] v.t = "string" -> "string"
    [] v.t = "symbol" -> "symbol"
    [] OTHER -> "object"

IsArray(v) == v.t = "array"

\* value === other for the primitives a literal can hold (NaN !== NaN)
StrictEq(a, b) == a.t # "NaN" /\ a = b

\* !!value
Truthy(v) ==
  CASE v.t \in {"undefined", "null", "NaN"} -> FALSE
    [] v.t = "boolean" -> v.b
    [] v.t = "number" -> v.n # 0
    [] v.t = "string" -> v.s # ""
    [] OTHER -> TRUE

\* Decimal text of the integers the model uses
IntToStr(n) ==
  CASE n = -1 -> "-1" [] n = 0 -> "0" [] n = 1 -> "1" [] n = 2 -> "2"
    [] n = 3 -> "3" [] n = 4 -> "4" [] n = 5 -> "5" [] n = 10 -> "10"
    [] n = 11 -> "11"

RECURSIVE JSString(_)
RECURSIVE JoinFrom(_, _)
\* Array.prototype.join(','): null and undefined items give the empty text
JoinFrom(a, i) ==
  IF i > Len(a) THEN ""
  ELSE LET item == IF a[i].t \in {"undefined", "null"} THEN "" ELSE JSString(a[i])
       IN IF i = Len(a) THEN item ELSE item \o "," \o JoinFrom(a, i + 1)

\* String(value)
JSString(v) ==
  CASE v.t = "undefined" -> "undefined"
    [] v.t = "null" -> "null"
    [] v.t = "boolean" -> IF v.b THEN "true" ELSE "false"
    [] v.t = "number" -> IntToStr(v.n)
    [] v.t = "NaN" -> "NaN"
    [] v.t = "string" -> v.s
    [] v.t = "array" -> JoinFrom(v.a, 1)
    [] v.t = "object" -> "[object Object]"
    [] v.t = "map" -> "[object Map]"
    [] v.t = "set" -> "[object Set]"
    [] v.t = "date" -> "[date]"
    [] v.t = "promise" -> "[object Promise]"
    [] v.t = "symbol" -> "Symbol()"

\* Number(text): every text that is not a decimal numeral or blank is NaN
StrToNumber(s) ==
  CASE s = "" -> Num(0) [] s = "-1" -> Num(-1) [] s = "0" -> Num(0)
    [] s = "1" -> Num(1) [] s = "2" -> Num(2) [] s = "3" -> Num(3)
    [] s = "4" -> Num(4) [] s = "5" -> Num(5) [] s = "10" -> Num(10)
    [] s = "11" -> Num(11)
    [] OTHER -> NaN

\* Number(value)
JSNumber(v) ==
  CASE v.t = "undefined" -> NaN
    [] v.t = "null" -> Num(0)
    [] v.t = "boolean" -> IF v.b THEN Num(1) ELSE Num(0)
    [] v.t \in {"number", "NaN"} -> v
    [] v.t = "string" -> StrToNumber(v.s)
    [] v.t = "array" -> StrToNumber(JSString(v))
    [] v.t = "date" -> v.d
    [] OTHER -> NaN

\* Whether converting value to a number throws a TypeError
NumberThrows(v) == v.t = "symbol"

SyntaxError == [name |-> "SyntaxError"]
TypeError == [name |-> "TypeError"]
RangeError == [name |-> "RangeError"]

\* The text of the valid Date the model uses, whose time value is 1
IsoText == "1970-01-01T00:00:00.001Z"

\* new Date(text).getTime() for the texts that occur as date inputs
DateParse(s) == IF s = IsoText THEN Num(1) ELSE NaN

\* date.toISOString()
toISOString(v) ==
  IF v.t # "date" THEN Throw(TypeError)
  ELSE IF v.d = NaN THEN Throw(RangeError)
  ELSE Ok(Str(IsoText))

\* JSON.parse(text)
JSONParse(s) ==
  CASE s = "-1" -> Ok(Num(-1)) [] s = "0" -> Ok(Num(0)) [] s = "1" -> Ok(Num(1))
    [] s = "2" -> Ok(Num(2)) [] s = "3" -> Ok(Num(3)) [] s = "4" -> Ok(Num(4))
    [] s = "5" -> Ok(Num(5)) [] s = "10" -> Ok(Num(10)) [] s = "11" -> Ok(Num(11))
    [] s = "true" -> Ok(Bool(TRUE)) [] s = "false" -> Ok(Bool(FALSE))
    [] s = "null" -> Ok(Null)
    [] s = "\"a\"" -> Ok(Str("a"))
    [] s = "\"1\"" -> Ok(Str("1"))
    [] s = "{\"a\":5}" -> Ok(Obj([key \in {"a"} |-> Num(5)]))
    [] OTHER -> Throw(SyntaxError)

\* Names of the object properties the model uses (none contains a '.')
Keys == {"a", "b"}

\* Keys in the order Object.entries lists them
KeyOrder == <<"a", "b">>

\* The text of a string inside a JSON text
Quote(s) ==
  "\"" \o (CASE s = "\"a\"" -> "\\\"a\\\""
             [] s = "{\"a\":5}" -> "{\\\"a\\\":5}"
             [] OTHER -> s) \o "\""

RECURSIVE JSONStringify(_)
\* JSON.stringify(value): a string, or undefined
JSONStringify(v) ==
  LET Item(x) == LET t == JSONStringify(x) IN IF t = Undefined THEN "null" ELSE t.s
      RECURSIVE Items(_, _)
      Items(a, i) ==
        IF i > Len(a) THEN ""
        ELSE IF i = Len(a) THEN Item(a[i])
        ELSE Item(a[i]) \o "," \o Items(a, i + 1)
      RECURSIVE Members(_, _)
      Members(ks, i) ==
        IF i > Len(ks) THEN ""
        ELSE LET member == Quote(ks[i]) \o ":" \o JSONStringify(v.o[ks[i]]).s
             IN IF i = Len(ks) THEN member ELSE member \o "," \o Members(ks, i + 1)
  IN CASE v.t \in {"undefined", "symbol"} -> Undefined
       [] v.t \in {"null", "NaN"} -> Str("null")
       [] v.t = "boolean" -> Str(IF v.b THEN "true" ELSE "false")
       [] v.t = "number" -> Str(IntToStr(v.n))
       [] v.t = "string" -> Str(Quote(v.s))
       [] v.t = "array" -> Str("[" \o Items(v.a, 1) \o "]")
       [] v.t = "object" ->
            LET Kept(key) == key \in DOMAIN v.o /\ JSONStringify(v.o[key]) # Undefined
            IN Str("{" \o Members(SelectSeq(KeyOrder, Kept), 1) \o "}")
       [] v.t = "date" -> IF v.d = NaN THEN Str("null") ELSE Str(Quote(IsoText))
       [] OTHER -> Str("{}")

\* The characters of the texts that occur as inputs
Chars(s) ==
  CASE s = "" -> <<>>
    [] s = "a" -> <<"a">>
    [] s = "1" -> <<"1">>
    [] s = "\"" -> <<"\"">>
    [] s = "\"a\"" -> <<"\"", "a", "\"">>
    [] s = "{\"a\":5}" -> <<"{", "\"", "a", "\"", ":", "5", "}">>
    [] s \in {"{", ":", "5", "}"} -> <<s>>
    [] s = "not-a-date" -> <<"n", "o", "t", "-", "a", "-", "d", "a", "t", "e">>
    [] s = IsoText ->
         <<"1", "9", "7", "0", "-", "0", "1", "-", "0", "1", "T", "0", "0", ":",
           "0", "0", ":", "0", "0", ".", "0", "0", "1", "Z">>
    [] s \in {"n", "o", "t", "-", "d", "e", "9", "7", "0", "T", ".", "Z"} -> <<s>>

\* value[index] for a zero-based array index
Index(v, i) ==
  CASE v.t = "array" -> IF i + 1 \in DOMAIN v.a THEN v.a[i + 1] ELSE Undefined
    [] v.t = "string" -> IF i + 1 \in DOMAIN Chars(v.s) THEN Str(Chars(v.s)[i + 1]) ELSE Undefined
    [] OTHER -> Undefined

\* value[key] for a property name of Keys
Get(v, key) ==
  IF v.t = "object" /\ key \in DOMAIN v.o THEN v.o[key] ELSE Undefined

\* value.length
Length(v) ==
  CASE v.t = "array" -> Num(Len(v.a))
    [] v.t = "string" -> Num(Len(Chars(v.s)))
    [] OTHER -> Undefined

\* Whether reading a property of value throws
Nullish(v) == v.t \in {"undefined", "null"}

-----------------------------------------------------------------------------
(* Violations and errors (error.ts) *)

NonEmptySeg(s) == s # ""

\* The segments of an optional path string
Segs(p) == IF p.some THEN p.x ELSE <<>>

\* resolvePath(a, b): drop undefined, split at '.', drop '' and join with '.'
resolvePath(a, b) ==
  LET kept == SelectSeq(Segs(a) \o Segs(b), NonEmptySeg)
  IN IF kept = <<>> THEN <<"">> ELSE kept

\* new UnsupportedTypeError(value, path)
UnsupportedTypeError(value, path) ==
  [name |-> "UnsupportedTypeError", value |-> value, path |-> path,
   violations |-> <<[type |-> "unsupported.type",
                     message |-> <<"Unsupported value type of", TypeOf(value)>>,
                     args |-> Some(value), path |-> path]>>]

\* new UnsupportedValueError(value, path)
UnsupportedValueError(value, path) ==
  [name |-> "UnsupportedValueError", value |-> value, path |-> path,
   violations |-> <<[type |-> "unsupported.value",
                     message |-> <<"Unsupported value of", value>>,
                     args |-> Some(value), path |-> path]>>]

\* error instanceof ViolationError
IsViolationError(e) == e.name \in {"UnsupportedTypeError", "UnsupportedValueError"}

\* redirect(violation, path)
redirect(violation, path) ==
  [violation EXCEPT !.path = Some(resolvePath(path, violation.path))]

\* redirectAll(violations, path)
redirectAll(violations, path) ==
  [i \in DOMAIN violations |-> redirect(violations[i], path)]

\* reException(fn, path), applied to the outcome of fn()
reException(outcome, path) ==
  IF outcome.ok THEN outcome
  ELSE IF outcome.e.name = "UnsupportedTypeError"
         THEN Throw(UnsupportedTypeError(outcome.e.value, Some(resolvePath(path, outcome.e.path))))
       ELSE IF outcome.e.name = "UnsupportedValueError"
         THEN Throw(UnsupportedTypeError(outcome.e.value, Some(resolvePath(path, outcome.e.path))))
       ELSE outcome

\* String(index) as a path
IndexPath(i) == Some(<<IntToStr(i)>>)

\* A property name as a path
KeyPath(key) == Some(<<key>>)

-----------------------------------------------------------------------------
(* Constraints *)

\* The constraint objects built by the helper methods; the message is the
\* default template with its interpolated limit
Constraint(type, template, limit) ==
  [type |-> type, message |-> <<template, limit>>, args |-> Some([limit |-> limit])]

NumberMin(limit) == Constraint("number.min", "must be greater than or equal to", limit)
NumberMax(limit) == Constraint("number.max", "must be less than or equal to", limit)
StringMin(limit) == Constraint("string.length.min", "must be more than characters", limit)
StringMax(limit) == Constraint("string.length.max", "must be less than characters", limit)
ArrayLength(limit) == Constraint("array.length", "must be at length", limit)
ArrayMin(limit) == Constraint("array.length.min", "must be at least length", limit)
ArrayMax(limit) == Constraint("array.length.max", "must be at most length", limit)

\* constraint.test(value): Ok(boolean), or the TypeError of reading .length
\* of null or undefined
ConstraintTest(c, v) ==
  LET limit == c.args.x.limit
      n == JSNumber(v)
      len == Length(v)
  IN CASE c.type \in {"number.min", "number.max"} /\ NumberThrows(v) -> Throw(TypeError)
       [] c.type = "number.min" -> Ok(n.t = "number" /\ n.n >= limit)
       [] c.type = "number.max" -> Ok(n.t = "number" /\ n.n <= limit)
       [] c.type \in {"string.length.min", "array.length.min"} ->
            IF Nullish(v) THEN Throw(TypeError)
            ELSE Ok(len.t = "number" /\ len.n >= limit)
       [] c.type \in {"string.length.max", "array.length.max"} ->
            IF Nullish(v) THEN Throw(TypeError)
            ELSE Ok(len.t = "number" /\ len.n <= limit)
       [] c.type = "array.length" ->
            IF Nullish(v) THEN Throw(TypeError)
            ELSE Ok(len.t = "number" /\ len.n = limit)

-----------------------------------------------------------------------------
(* Schemas (schema.ts).  A schema is a record: k is its class, cs its      *)
(* constraint list, and the remaining fields its definition.               *)

EmptyCs == <<>>
AnySchema == [k |-> "any", cs |-> EmptyCs]
UnknownSchema == [k |-> "unknown", cs |-> EmptyCs]
BooleanSchema == [k |-> "boolean", cs |-> EmptyCs]
NumberSchema == [k |-> "number", cs |-> EmptyCs]
StringSchema == [k |-> "string", cs |-> EmptyCs]
NullSchema == [k |-> "null", cs |-> EmptyCs]
UndefinedSchema == [k |-> "undefined", cs |-> EmptyCs]
DateSchema == [k |-> "date", cs |-> EmptyCs]
LiteralSchema(value) == [k |-> "literal", cs |-> EmptyCs, value |-> value]
ArraySchema(s) == [k |-> "array", cs |-> EmptyCs, schema |-> s]
JSONSchema(s) == [k |-> "json", cs |-> EmptyCs, schema |-> s]
NullableSchema(s) == [k |-> "nullable", cs |-> EmptyCs, schema |-> s]
OptionalSchema(s) == [k |-> "optional", cs |-> EmptyCs, schema |-> s]
PromiseSchema(s) == [k |-> "promise", cs |-> EmptyCs, schema |-> s]
MapSchema(key, value) == [k |-> "map", cs |-> EmptyCs, key |-> key, value |-> value]
SetSchema(value) == [k |-> "set", cs |-> EmptyCs, value |-> value]
TupleSchema(items) == [k |-> "tuple", cs |-> EmptyCs, items |-> items]
\* properties is the sequence of <<key, schema>> pairs in declaration order
ObjectSchema(properties) == [k |-> "object", cs |-> EmptyCs, properties |-> properties]
UnionSchema(members) == [k |-> "union", cs |-> EmptyCs, members |-> members]
IntersectSchema(members) == [k |-> "intersect", cs |-> EmptyCs, members |-> members]

RECURSIVE PropertiesFrom(_, _, _)
\* Object.fromEntries of a list of <<key, schema>> entries: a key that
\* occurs again keeps its place and takes the later schema
PropertiesFrom(acc, entries, i) ==
  IF i > Len(entries) THEN acc
  ELSE LET Same(j) == acc[j][1] = entries[i][1]
           at == IF \E j \in DOMAIN acc : Same(j)
                 THEN CHOOSE j \in DOMAIN acc : Same(j) ELSE 0
       IN PropertiesFrom(IF at = 0 THEN Append(acc, entries[i])
                         ELSE [acc EXCEPT ![at] = entries[i]],
                         entries, i + 1)

\* schema.extends(extension): ObjectSchema.create of the properties of this
\* followed by those of the extension
ObjectSchema_extends(s, extension) ==
  ObjectSchema(PropertiesFrom(<<>>, s.properties \o extension, 1))

\* schema.pick(...keys): ObjectSchema.create of the properties named in keys
ObjectSchema_pick(s, keys) ==
  LET Picked(entry) == entry[1] \in keys
  IN ObjectSchema(PropertiesFrom(<<>>, SelectSeq(s.properties, Picked), 1))

\* schema.omit(...keys): ObjectSchema.create of the properties not named in
\* keys
ObjectSchema_omit(s, keys) ==
  LET Kept(entry) == entry[1] \notin keys
  IN ObjectSchema(PropertiesFrom(<<>>, SelectSeq(s.properties, Kept), 1))

\* schema.rule(constraint), as a value
Rule(s, c) == [s EXCEPT !.cs = Append(@, c)]

\* Array.prototype.find: the index of the first item satisfying Bad, 0 if none
FirstIndex(n, Bad(_)) ==
  IF \E i \in 1..n : Bad(i)
  THEN CHOOSE i \in 1..n : Bad(i) /\ \A j \in 1..(i - 1) : ~Bad(j)
  ELSE 0

\* The entries of a Map, Array or Set as value.entries() lists them
Entries(v) ==
  CASE v.t = "map" -> v.m
    [] v.t = "array" -> [i \in DOMAIN v.a |-> <<Num(i - 1), v.a[i]>>]
    [] v.t = "set" -> [i \in DOMAIN v.e |-> <<v.e[i], v.e[i]>>]

\* The items of a Set, Map or Array as value.values() lists them
Values(v) ==
  CASE v.t = "set" -> v.e
    [] v.t = "array" -> v.a
    [] v.t = "map" -> [i \in DOMAIN v.m |-> v.m[i][2]]

HasEntries(v) == v.t \in {"map", "array", "set"}

RECURSIVE Is(_, _)
\* schema.is(value)
Is(s, v) ==
  CASE s.k \in {"any", "unknown"} -> TRUE
    [] s.k = "boolean" -> TypeOf(v) = "boolean"
    [] s.k = "number" -> TypeOf(v) = "number"
    [] s.k = "string" -> TypeOf(v) = "string"
    [] s.k = "null" -> v = Null
    [] s.k = "undefined" -> v = Undefined
    [] s.k = "date" -> v.t = "date"
    [] s.k = "literal" -> StrictEq(s.value, v)
    [] s.k = "array" ->
         \* value.find((v) => !this.schema.is(v)) === undefined
         /\ IsArray(v)
         /\ LET Bad(i) == ~Is(s.schema, v.a[i])
                found == FirstIndex(Len(v.a), Bad)
            IN found = 0 \/ v.a[found] = Undefined
    [] s.k = "json" -> Is(s.schema, v)
    [] s.k = "nullable" -> v = Null \/ Is(s.schema, v)
    [] s.k = "optional" -> v = Undefined \/ Is(s.schema, v)
    [] s.k = "promise" -> v.t = "promise"
    [] s.k = "map" ->
         /\ v.t = "map"
         /\ \A i \in DOMAIN v.m : Is(s.key, v.m[i][1]) /\ Is(s.value, v.m[i][2])
    [] s.k = "set" ->
         /\ v.t = "set"
         /\ LET Bad(i) == ~Is(s.value, v.e[i])
                found == FirstIndex(Len(v.e), Bad)
            IN found = 0 \/ v.e[found] = Undefined
    [] s.k = "tuple" ->
         /\ IsArray(v)
         /\ \A i \in DOMAIN s.items : Is(s.items[i], Index(v, i - 1))
    [] s.k = "object" ->
         /\ TypeOf(v) = "object"
         /\ v # Null
         /\ \A i \in DOMAIN s.properties :
              Is(s.properties[i][2], Get(v, s.properties[i][1]))
    [] s.k = "union" -> \E i \in DOMAIN s.members : Is(s.members[i], v)
    [] s.k = "intersect" -> \A i \in DOMAIN s.members : Is(s.members[i], v)

-----------------------------------------------------------------------------
(* check *)

RECURSIVE FlattenFrom(_, _)
\* Concatenation of the sequences seqs[i], seqs[i+1], ...
FlattenFrom(seqs, i) ==
  IF i > Len(seqs) THEN <<>> ELSE seqs[i] \o FlattenFrom(seqs, i + 1)

\* An evaluation that would go on after an exception and throw the last one
Sequenced_LastFailure(outs) ==
  LET Failed(i) == ~outs[i].ok
      Last(i) == Failed(i) /\ \A j \in (i + 1)..Len(outs) : ~Failed(j)
      bad == FirstIndex(Len(outs), Last)
  IN IF bad # 0 THEN outs[bad] ELSE Ok([i \in DOMAIN outs |-> outs[i].v])

\* The outcome of evaluating a sequence of outcomes in order: the first
\* exception thrown, or else all the returned values
Sequenced(outs) ==
  LET Failed(i) == ~outs[i].ok
      bad == FirstIndex(Len(outs), Failed)
  IN IF bad # 0 THEN outs[bad] ELSE Ok([i \in DOMAIN outs |-> outs[i].v])

\* Concatenation of the violation lists returned by a sequence of checks
Concat(outs) ==
  LET all == Sequenced(outs)
  IN IF all.ok THEN Ok(FlattenFrom(all.v, 1)) ELSE all

\* Redirection of the violations a child check returned
Redirected(out, path) == IF out.ok THEN Ok(redirectAll(out.v, path)) ELSE out

\* Schema.check stopping at the first constraint whose test returns false
Schema_check_ShortCircuit(s, v) ==
  LET tests == [i \in DOMAIN s.cs |-> ConstraintTest(s.cs[i], v)]
      all == Sequenced(tests)
      Failing(i) == ~tests[i].v
      bad == FirstIndex(Len(s.cs), Failing)
  IN IF ~all.ok THEN all
     ELSE IF bad = 0 THEN Ok(<<>>)
     ELSE Ok(<<[type |-> s.cs[bad].type, message |-> s.cs[bad].message,
                args |-> s.cs[bad].args, path |-> None]>>)

\* Schema.check: one violation per constraint whose test returns false
Schema_check(s, v) ==
  LET tests == [i \in DOMAIN s.cs |-> ConstraintTest(s.cs[i], v)]
      all == Sequenced(tests)
      Failing(i) == ~tests[i].v
      RECURSIVE Collect(_)
      Collect(i) ==
        IF i > Len(s.cs) THEN <<>>
        ELSE (IF Failing(i)
                THEN <<[type |-> s.cs[i].type, message |-> s.cs[i].message,
                        args |-> s.cs[i].args, path |-> None]>>
                ELSE <<>>) \o Collect(i + 1)
  IN IF all.ok THEN Ok(Collect(1)) ELSE all

RECURSIVE Check(_, _)
\* A union check that would ask every member, accepting or not
Union_check_EveryMember(s, v) ==
  Concat([i \in DOMAIN s.members |-> Check(s.members[i], v)])

\* UnionSchema.check: the checks of the members whose is accepts the value
Union_check(s, v) ==
  Concat([i \in DOMAIN s.members |->
    IF Is(s.members[i], v) THEN Check(s.members[i], v) ELSE Ok(<<>>)])

\* The violations a combinator derives from its children, in iteration order
ChildCheck(s, v) ==
  CASE s.k = "array" ->
         IF ~IsArray(v) THEN Throw(TypeError)
         ELSE Concat([i \in DOMAIN v.a |->
                Redirected(Check(s.schema, v.a[i]), IndexPath(i - 1))])
    [] s.k \in {"json", "promise"} -> Check(s.schema, v)
    [] s.k \in {"nullable", "optional"} ->
         IF Is(s.schema, v) THEN Check(s.schema, v) ELSE Ok(<<>>)
    [] s.k = "map" ->
         IF ~HasEntries(v) THEN Throw(TypeError)
         ELSE LET es == Entries(v)
              IN Concat([i \in DOMAIN es |->
                   Redirected(Concat(<<Check(s.key, es[i][1]), Check(s.value, es[i][2])>>),
                              Some(<<JSString(es[i][1])>>))])
    [] s.k = "set" ->
         IF ~HasEntries(v) THEN Throw(TypeError)
         ELSE LET vs == Values(v)
              IN Concat([i \in DOMAIN vs |-> Check(s.value, vs[i])])
    [] s.k = "tuple" ->
         IF Nullish(v) THEN Throw(TypeError)
         ELSE Concat([i \in DOMAIN s.items |->
                Redirected(Check(s.items[i], Index(v, i - 1)), IndexPath(i - 1))])
    [] s.k = "object" ->
         IF Nullish(v) /\ s.properties # <<>> THEN Throw(TypeError)
         ELSE Concat([i \in DOMAIN s.properties |->
                Redirected(Check(s.properties[i][2], Get(v, s.properties[i][1])),
                           KeyPath(s.properties[i][1]))])
    [] s.k = "union" -> Union_check(s, v)
    [] s.k = "intersect" ->
         Concat([i \in DOMAIN s.members |-> Check(s.members[i], v)])
    [] OTHER -> Ok(<<>>)

\* check with the children's violations ahead of the own ones
Check_ChildrenFirst(s, v) == Concat(<<ChildCheck(s, v), Schema_check(s, v)>>)

\* schema.check(value): own violations, then the children's
Check(s, v) == Concat(<<Schema_check(s, v), ChildCheck(s, v)>>)

\* schema.test(value)
Test(s, v) ==
  LET c == Check(s, v) IN IF c.ok THEN Ok(Len(c.v) = 0) ELSE c

\* schema.validate(value)
Validate(s, v) ==
  LET c == Check(s, v)
  IN IF ~c.ok THEN c
     ELSE IF Len(c.v) = 0 THEN Ok([valid |-> TRUE, value |-> v])
          ELSE Ok([valid |-> FALSE, violations |-> c.v])

-----------------------------------------------------------------------------
(* decode *)

\* The own enumerable properties an object spread {...value} copies
OwnProps(v) ==
  CASE v.t = "object" -> v.o
    [] v.t = "array" -> [key \in {IntToStr(i - 1) : i \in DOMAIN v.a} |->
                           v.a[CHOOSE i \in DOMAIN v.a : IntToStr(i - 1) = key]]
    [] OTHER -> <<>>

\* merge with the spreads swapped: {...base, ...target}
merge_LastWins(base, target) ==
  [key \in DOMAIN target \cup DOMAIN base |->
     IF key \in DOMAIN target THEN target[key] ELSE base[key]]

\* merge(base, target) = {...target, ...base}: on a shared key base wins
merge(base, target) ==
  [key \in DOMAIN target \cup DOMAIN base |->
     IF key \in DOMAIN base THEN base[key] ELSE target[key]]

RECURSIVE MergeAll(_, _, _)
\* results.reduce((result, v) => merge(result, v), {}) from item i on
MergeAll(acc, results, i) ==
  IF i > Len(results) THEN acc
  ELSE MergeAll(merge(acc, OwnProps(results[i])), results, i + 1)

IsObjectTyped(v) == TypeOf(v) = "object"

\* Object.fromEntries of <<key, value>> pairs: the last pair of a key wins
FromEntries(entries) ==
  [key \in {entries[i][1] : i \in DOMAIN entries} |->
     entries[CHOOSE i \in DOMAIN entries :
               /\ entries[i][1] = key
               /\ \A j \in DOMAIN entries : entries[j][1] = key => j <= i][2]]

\* Object.entries(value) of a non-null object-typed value
ObjectEntries(v) ==
  IF v.t = "object"
  THEN LET present == SelectSeq(KeyOrder, LAMBDA key : key \in DOMAIN v.o)
       IN [i \in DOMAIN present |-> <<Str(present[i]), v.o[present[i]]>>]
  ELSE <<>>

\* MapSchema.toEntries(value)
toEntries(v) ==
  CASE v.t = "array" ->
         Ok([i \in DOMAIN v.a |->
              IF IsArray(v.a[i]) THEN <<Index(v.a[i], 0), Index(v.a[i], 1)>>
              ELSE <<v.a[i], Undefined>>])
    [] v.t = "map" -> Ok(v.m)
    [] TypeOf(v) = "object" /\ v # Null -> Ok(ObjectEntries(v))
    [] OTHER -> Throw(UnsupportedTypeError(v, None))

RECURSIVE MapFrom(_, _, _)
\* new Map(entries): a later entry with a key already present replaces the
\* value and keeps the position of the first
MapFrom(acc, entries, i) ==
  IF i > Len(entries) THEN acc
  ELSE LET e == entries[i]
           Same(j) == acc[j][1] = e[1]
           at == FirstIndex(Len(acc), Same)
       IN MapFrom(IF at = 0 THEN Append(acc, e) ELSE [acc EXCEPT ![at] = e],
                  entries, i + 1)

RECURSIVE SetFrom(_, _, _)
\* new Set(items) keeping every item
SetFrom_KeepAll(acc, items, i) == items

\* new Set(items): an item already present is dropped; object-typed items
\* are distinct objects and are never dropped
SetFrom(acc, items, i) ==
  IF i > Len(items) THEN acc
  ELSE LET x == items[i]
           dup == /\ ~(IsObjectTyped(x) /\ x # Null)
                  /\ \E j \in DOMAIN acc : acc[j] = x
       IN SetFrom(IF dup THEN acc ELSE Append(acc, x), items, i + 1)

\* DateSchema.decode reporting an unparsable text as an unsupported type
Date_decode_TypeOnly(s, v) ==
  IF Is(s, v) THEN Ok(v)
  ELSE IF TypeOf(v) = "string" /\ DateParse(v.s) # NaN
    THEN Ok(DateV(DateParse(v.s)))
  ELSE Throw(UnsupportedTypeError(v, None))

\* DateSchema.decode
Date_decode(s, v) ==
  IF Is(s, v) THEN Ok(v)
  ELSE IF TypeOf(v) = "string"
    THEN IF DateParse(v.s) = NaN THEN Throw(UnsupportedValueError(v, None))
         ELSE Ok(DateV(DateParse(v.s)))
  ELSE Throw(UnsupportedTypeError(v, None))

\* The items of ArraySchema.decode with null and undefined wrapped as well
Array_values_WrapNullish(v) == IF IsArray(v) THEN v.a ELSE <<v>>

\* The items ArraySchema.decode decodes: those of an array, the value itself
\* unless it is null or undefined, else none
Array_values(v) ==
  IF IsArray(v) THEN v.a ELSE IF ~Nullish(v) THEN <<v>> ELSE <<>>

RECURSIVE Decode(_, _)
\* UnionSchema.decode without the try/catch of the second loop
Union_decode_NoCatch(s, v) ==
  LET Matches(i) == Is(s.members[i], v)
      first == FirstIndex(Len(s.members), Matches)
      outs == [i \in DOMAIN s.members |-> Decode(s.members[i], v)]
  IN IF Is(s, v) THEN Ok(v)
     ELSE IF first # 0 THEN outs[first]
     ELSE outs[1]

\* UnionSchema.decode
Union_decode(s, v) ==
  LET Matches(i) == Is(s.members[i], v)
      first == FirstIndex(Len(s.members), Matches)
      outs == [i \in DOMAIN s.members |-> Decode(s.members[i], v)]
      Succeeds(i) == outs[i].ok
      brute == FirstIndex(Len(s.members), Succeeds)
  IN IF Is(s, v) THEN Ok(v)
     ELSE IF first # 0 THEN outs[first]
     ELSE IF brute # 0 THEN outs[brute]
     ELSE Throw(UnsupportedTypeError(v, None))

\* IntersectSchema.decode
Intersect_decode(s, v) ==
  IF Is(s, v) THEN Ok(v)
  ELSE LET all == Sequenced([i \in DOMAIN s.members |-> Decode(s.members[i], v)])
       IN IF ~all.ok THEN all
          ELSE Ok(Obj(MergeAll(<<>>, SelectSeq(all.v, IsObjectTyped), 1)))

\* schema.decode(value)
Decode(s, v) ==
  CASE s.k \in {"any", "unknown"} -> Ok(v)
    [] s.k = "boolean" -> Ok(Bool(Truthy(v)))
    [] s.k = "number" ->
         IF Is(s, v) THEN Ok(v)
         ELSE IF v = Undefined THEN Ok(Num(0))
         ELSE IF v = Str("NaN") \/ v = Str("-NaN") THEN Ok(NaN)
         ELSE IF NumberThrows(v) THEN Throw(TypeError)
         ELSE Ok(JSNumber(v))
    [] s.k = "string" ->
         IF Is(s, v) THEN Ok(v)
         ELSE IF Nullish(v) THEN Ok(Str(""))
         ELSE Ok(Str(JSString(v)))
    [] s.k \in {"null", "undefined"} ->
         IF Is(s, v) THEN Ok(v) ELSE Throw(UnsupportedTypeError(v, None))
    [] s.k = "date" -> Date_decode(s, v)
    [] s.k = "literal" ->
         IF Is(s, v) THEN Ok(v) ELSE Throw(UnsupportedValueError(v, None))
    [] s.k = "array" ->
         IF Is(s, v) THEN Ok(v)
         ELSE LET values == Array_values(v)
                  all == Sequenced([i \in DOMAIN values |->
                           reException(Decode(s.schema, values[i]), IndexPath(i - 1))])
              IN IF all.ok THEN Ok(Arr(all.v)) ELSE all
    [] s.k = "json" ->
         LET text == Decode(StringSchema, v).v.s
             parsed == JSONParse(text)
         IN IF parsed.ok THEN Decode(s.schema, parsed.v) ELSE parsed
    [] s.k = "nullable" -> IF v = Null THEN Ok(Null) ELSE Decode(s.schema, v)
    [] s.k = "optional" -> IF v = Undefined THEN Ok(Undefined) ELSE Decode(s.schema, v)
    [] s.k = "map" ->
         IF Is(s, v) THEN Ok(v)
         ELSE LET es == toEntries(v)
              IN IF ~es.ok THEN es
                 ELSE LET all == Sequenced([i \in DOMAIN es.v |->
                            reException(
                              LET pair == Sequenced(<<Decode(s.key, es.v[i][1]),
                                                      Decode(s.value, es.v[i][2])>>)
                              IN pair,
                              \* String(this.key): the text of the key schema object
                              Some(<<"[object Object]">>))])
                      IN IF all.ok THEN Ok(MapV(MapFrom(<<>>, all.v, 1))) ELSE all
    [] s.k = "set" ->
         IF Is(s, v) THEN Ok(v)
         ELSE IF IsArray(v)
           THEN LET all == Sequenced([i \in DOMAIN v.a |-> Decode(s.value, v.a[i])])
                IN IF all.ok THEN Ok(SetV(SetFrom(<<>>, all.v, 1))) ELSE all
         ELSE Throw(UnsupportedTypeError(v, None))
    [] s.k = "tuple" ->
         IF Is(s, v) THEN Ok(v)
         ELSE IF IsArray(v)
           THEN LET all == Sequenced([i \in DOMAIN s.items |->
                      reException(Decode(s.items[i], Index(v, i - 1)), IndexPath(i - 1))])
                IN IF all.ok THEN Ok(Arr(all.v)) ELSE all
         ELSE Throw(UnsupportedTypeError(v, None))
    [] s.k = "object" ->
         IF Is(s, v) THEN Ok(v)
         ELSE IF TypeOf(v) = "object" /\ v # Null
           THEN LET all == Sequenced([i \in DOMAIN s.properties |->
                      reException(Decode(s.properties[i][2], Get(v, s.properties[i][1])),
                                  KeyPath(s.properties[i][1]))])
                IN IF all.ok
                   THEN Ok(Obj(FromEntries([i \in DOMAIN s.properties |->
                                  <<s.properties[i][1], all.v[i]>>])))
                   ELSE all
         ELSE Throw(UnsupportedTypeError(v, None))
    [] s.k = "union" -> Union_decode(s, v)
    [] s.k = "intersect" -> Intersect_decode(s, v)

\* The result of a catch block that reports every error by its violations
ParseResult_ViolationsOnly(out, type, message) ==
  IF out.ok THEN [success |-> TRUE, value |-> out.v]
  ELSE [success |-> FALSE,
        violations |-> IF IsViolationError(out.e) THEN out.e.violations ELSE <<>>]

\* The result tryDecode and tryEncode build from the caught outcome
ParseResult(out, type, message) ==
  IF out.ok THEN [success |-> TRUE, value |-> out.v]
  ELSE IF IsViolationError(out.e)
    THEN [success |-> FALSE, violations |-> out.e.violations]
  ELSE [success |-> FALSE,
        violations |-> <<[type |-> type, message |-> <<message>>,
                          args |-> Some([error |-> out.e]), path |-> None]>>]

\* schema.tryDecode(value)
TryDecode(s, v) ==
  ParseResult(Decode(s, v), "decode", "An error has occurred during decoding")

-----------------------------------------------------------------------------
(* encode *)

\* BooleanSchema.encode returning the text of the value
Boolean_encode_AsText(v) == Str(JSString(v))

\* BooleanSchema.encode
Boolean_encode(v) == v

RECURSIVE Encode(_, _)
\* schema.encode(value)
Encode(s, v) ==
  CASE s.k = "boolean" -> Ok(Boolean_encode(v))
    [] s.k \in {"any", "unknown", "number", "string", "null", "undefined",
                "literal"} -> Ok(v)
    [] s.k = "date" -> toISOString(v)
    [] s.k = "array" ->
         IF ~IsArray(v) THEN Throw(TypeError)
         ELSE LET all == Sequenced([i \in DOMAIN v.a |->
                           reException(Encode(s.schema, v.a[i]), IndexPath(i - 1))])
              IN IF all.ok THEN Ok(Arr(all.v)) ELSE all
    [] s.k = "json" ->
         LET encoded == Encode(s.schema, v)
         IN IF encoded.ok THEN Ok(JSONStringify(encoded.v)) ELSE encoded
    [] s.k = "nullable" -> IF v = Null THEN Ok(Null) ELSE Encode(s.schema, v)
    [] s.k = "optional" -> IF v = Undefined THEN Ok(Undefined) ELSE Encode(s.schema, v)
    [] s.k = "map" ->
         IF ~HasEntries(v) THEN Throw(TypeError)
         ELSE LET es == Entries(v)
                  all == Sequenced([i \in DOMAIN es |->
                           reException(Sequenced(<<Encode(s.key, es[i][1]),
                                                   Encode(s.value, es[i][2])>>),
                                       Some(<<JSString(es[i][1])>>))])
              IN IF all.ok
                 THEN Ok(Obj(FromEntries([i \in DOMAIN all.v |->
                                <<JSString(all.v[i][1]), all.v[i][2]>>])))
                 ELSE all
    [] s.k = "set" ->
         IF ~HasEntries(v) THEN Throw(TypeError)
         ELSE LET vs == Values(v)
                  all == Sequenced([i \in DOMAIN vs |-> Encode(s.value, vs[i])])
              IN IF all.ok THEN Ok(Arr(all.v)) ELSE all
    [] s.k = "tuple" ->
         IF Nullish(v) THEN Throw(TypeError)
         ELSE LET all == Sequenced([i \in DOMAIN s.items |->
                           reException(Encode(s.items[i], Index(v, i - 1)),
                                       IndexPath(i - 1))])
              IN IF all.ok THEN Ok(Arr(all.v)) ELSE all
    [] s.k = "object" ->
         IF Nullish(v) /\ s.properties # <<>> THEN Throw(TypeError)
         ELSE LET all == Sequenced([i \in DOMAIN s.properties |->
                           reException(Encode(s.properties[i][2],
                                              Get(v, s.properties[i][1])),
                                       KeyPath(s.properties[i][1]))])
              IN IF all.ok
                 THEN Ok(Obj(FromEntries([i \in DOMAIN s.properties |->
                                <<s.properties[i][1], all.v[i]>>])))
                 ELSE all
    [] s.k = "union" ->
         LET Matches(i) == Is(s.members[i], v)
             first == FirstIndex(Len(s.members), Matches)
         IN IF first # 0 THEN Encode(s.members[first], v)
            ELSE Throw(UnsupportedTypeError(v, None))
    [] s.k = "intersect" ->
         LET all == Sequenced([i \in DOMAIN s.members |-> Encode(s.members[i], v)])
         IN IF ~all.ok THEN all
            ELSE Ok(Obj(MergeAll(<<>>, SelectSeq(all.v, IsObjectTyped), 1)))

\* schema.tryEncode(value)
TryEncode(s, v) ==
  ParseResult(Encode(s, v), "encode", "An error has occurred during encoding")

-----------------------------------------------------------------------------
(* The schemas and inputs the operations are applied to *)

\* number().min(0).max(10)
Ranged == Rule(Rule(NumberSchema, NumberMin(0)), NumberMax(10))
\* number().max(10).min(0)
RangedRev == Rule(Rule(NumberSchema, NumberMax(10)), NumberMin(0))
\* string().min(1)
NonEmptyString == Rule(StringSchema, StringMin(1))

Prim == {NumberSchema, Ranged, StringSchema, NullSchema, LiteralSchema(Str("a"))}
Leaves == Prim \cup {RangedRev, NonEmptyString, BooleanSchema, UndefinedSchema, AnySchema}
KeySchemas == {StringSchema, NumberSchema, NonEmptyString}
ObjA(x) == ObjectSchema(<<<<"a", x>>>>)
ObjB(x) == ObjectSchema(<<<<"b", x>>>>)
ObjAB(x, y) == ObjectSchema(<<<<"a", x>>, <<"b", y>>>>)

Wrapped(X) ==
  UNION {{ArraySchema(x), OptionalSchema(x), NullableSchema(x), JSONSchema(x),
          SetSchema(x), ObjA(x), Rule(ArraySchema(x), ArrayMin(1))} : x \in X}

Paired(X) ==
  UNION {{TupleSchema(<<x, y>>), ObjAB(x, y), UnionSchema(<<x, y>>),
          IntersectSchema(<<x, y>>)} : <<x, y>> \in X \X X}

Level1 ==
  Wrapped(Leaves) \cup Paired(Prim)
    \cup {MapSchema(key, x) : <<key, x>> \in KeySchemas \X Prim}

Objects == {ObjA(NumberSchema), ObjA(StringSchema), ObjA(Ranged), ObjB(StringSchema),
            ObjAB(NumberSchema, StringSchema)}

Level2 ==
  {ObjA(ArraySchema(x)) : x \in Prim}
    \cup {ArraySchema(ObjA(x)) : x \in Prim}
    \cup {MapSchema(StringSchema, ArraySchema(x)) : x \in Prim}
    \cup {ObjA(MapSchema(StringSchema, x)) : x \in Prim}
    \cup {TupleSchema(<<ArraySchema(x), Ranged>>) : x \in Prim}
    \cup {UnionSchema(<<JSONSchema(StringSchema), x>>) : x \in Prim}
    \cup {UnionSchema(<<x, JSONSchema(StringSchema)>>) : x \in Prim}
    \cup {IntersectSchema(<<x, y>>) : <<x, y>> \in Objects \X Objects}
    \cup {IntersectSchema(<<ObjA(NumberSchema), ObjA(StringSchema), ObjAB(NullSchema, StringSchema)>>),
          IntersectSchema(<<UnionSchema(<<NumberSchema, StringSchema>>), NumberSchema>>),
          IntersectSchema(<<ArraySchema(NumberSchema), ObjA(OptionalSchema(NumberSchema))>>),
          UnionSchema(<<NullSchema, LiteralSchema(Str("a")), Ranged>>),
          UnionSchema(<<ObjA(NumberSchema), ObjB(StringSchema)>>),
          Rule(UnionSchema(<<Ranged, NonEmptyString>>), NumberMin(5)),
          Rule(IntersectSchema(<<Ranged, RangedRev>>), NumberMax(5)),
          Rule(ObjA(Ranged), NumberMin(0)),
          Rule(TupleSchema(<<Ranged, NonEmptyString>>), ArrayLength(2)),
          Rule(SetSchema(Ranged), ArrayMin(0)),
          Rule(MapSchema(NonEmptyString, Ranged), NumberMin(0)),
          Rule(NullableSchema(Ranged), NumberMax(5)),
          Rule(OptionalSchema(Ranged), NumberMax(5)),
          Rule(JSONSchema(Ranged), NumberMax(5)),
          IntersectSchema(<<JSONSchema(UnionSchema(<<StringSchema, ObjA(NumberSchema)>>)),
                            StringSchema>>),
          Rule(ArraySchema(Ranged), ArrayMax(1)),
          ArraySchema(ArraySchema(Ranged)),
          ArraySchema(JSONSchema(NumberSchema)),
          TupleSchema(<<NumberSchema>>), TupleSchema(<<StringSchema>>),
          UnknownSchema}

Schemas == Leaves \cup Level1 \cup Level2

\* date() and the combinators over it
DateSchemas ==
  {DateSchema, OptionalSchema(DateSchema), NullableSchema(DateSchema),
   ArraySchema(DateSchema), SetSchema(DateSchema), JSONSchema(DateSchema),
   ObjA(DateSchema), TupleSchema(<<DateSchema, DateSchema>>),
   MapSchema(StringSchema, DateSchema),
   UnionSchema(<<DateSchema, NumberSchema>>),
   UnionSchema(<<NullSchema, DateSchema>>),
   IntersectSchema(<<DateSchema, ObjA(StringSchema)>>)}

RECURSIVE SeqsUpTo(_, _)
\* The sequences over X of length at most n
SeqsUpTo(X, n) ==
  IF n = 0 THEN {<<>>}
  ELSE LET shorter == SeqsUpTo(X, n - 1)
       IN shorter \cup {Append(q, x) : <<q, x>> \in shorter \X X}

NoDup(q) == \A i, j \in DOMAIN q : i # j => q[i] # q[j]

Atoms == {Undefined, Null, Bool(TRUE), Num(-1), Num(5), Num(11), NaN,
          Str(""), Str("a"), Str("1"), Str("\"a\""), Str("{\"a\":5}"),
          Sym, DateV(Num(1))}
Elems == {Undefined, Null, Num(5), Num(11), Str("a")}
Arrays == {Arr(q) : q \in SeqsUpTo(Elems, MaxLen)}
Fields == Elems \cup {Arr(<<Num(5), Str("a")>>), Arr(<<Null, Num(11)>>),
                      Obj([key \in {"a"} |-> Num(11)])}
Records == {Obj(o) : o \in UNION {[D -> Fields] : D \in SUBSET Keys}}
Pairs == {Arr(<<Arr(<<x, y>>)>>) : <<x, y>> \in {Num(5), Str("a")} \X {Num(11), Str("a")}}
           \cup {Arr(<<Arr(<<Num(5), Num(11)>>), Arr(<<Str("a"), Null>>)>>),
                 Arr(<<Arr(<<Num(5), Num(11)>>), Arr(<<Num(5), Num(5)>>)>>),
                 Arr(<<Obj([key \in {"a"} |-> Str("5")]), Obj([key \in {"a"} |-> Num(11)])>>)}
Maps == {MapV(q) : q \in {q \in SeqsUpTo({Str("a"), Str("1"), Num(5)} \X {Num(5), Num(11), Str("a")}, MaxLen) :
                            \A i, j \in DOMAIN q : i # j => q[i][1] # q[j][1]}}
Sets == {SetV(q) : q \in {q \in SeqsUpTo({Undefined, Num(5), Num(11), Str("a")}, MaxLen) : NoDup(q)}}

Inputs == Atoms \cup Arrays \cup Records \cup Pairs \cup Maps \cup Sets

\* The inputs of the date schemas: Date instances, date texts that every
\* engine parses alike, and values of the other runtime types
DateAtoms ==
  {DateV(Num(1)), DateV(NaN), Str(IsoText), Str("not-a-date"), Str(""),
   Undefined, Null, Bool(TRUE), Bool(FALSE), Num(5), NaN, Sym}
DateInputs ==
  DateAtoms
    \cup {Arr(q) : q \in SeqsUpTo({DateV(Num(1)), Str(IsoText), Str("not-a-date"), Num(5)}, MaxLen)}
    \cup {Obj([key \in {"a"} |-> x]) : x \in DateAtoms}
    \cup {SetV(<<DateV(Num(1))>>), SetV(<<Str(IsoText)>>),
          MapV(<<<<Str("a"), DateV(Num(1))>>>>), MapV(<<<<Str("a"), Str("not-a-date")>>>>)}

-----------------------------------------------------------------------------
(* Applying one operation of a schema to one input *)

NoInsts == <<>>

Init ==
  /\ \E call \in (Schemas \X Inputs) \cup (DateSchemas \X DateInputs) :
       schema = call[1] /\ input = call[2]
  /\ op = "new"
  /\ result = None
  /\ insts = NoInsts /\ arrs = <<>> /\ ret = <<>> /\ recv = <<>>
  /\ store = <<>> /\ awaits = 0

Apply(name, value) ==
  /\ op = "new"
  /\ op' = name
  /\ result' = value
  /\ UNCHANGED <<schema, input, insts, arrs, ret, recv, store, awaits>>

CallIs == Apply("is", Is(schema, input))
CallCheck == Apply("check", Check(schema, input))
CallTest == Apply("test", Test(schema, input))
CallValidate == Apply("validate", Validate(schema, input))
CallDecode == Apply("decode", Decode(schema, input))
CallTryDecode == Apply("tryDecode", TryDecode(schema, input))
CallEncode == Apply("encode", Encode(schema, input))
CallTryEncode == Apply("tryEncode", TryEncode(schema, input))

\* The property maps the object schemas are extended with
Extensions == {<<<<"b", StringSchema>>>>, <<<<"a", NullSchema>>, <<"b", Ranged>>>>}

\* The derivations of an object schema; the result is the derived schema
CallExtends ==
  /\ schema.k = "object"
  /\ \E extension \in Extensions :
       Apply("extends", Ok(ObjectSchema_extends(schema, extension)))

CallPick ==
  /\ schema.k = "object"
  /\ \E keys \in SUBSET Keys : Apply("pick", Ok(ObjectSchema_pick(schema, keys)))

CallOmit ==
  /\ schema.k = "object"
  /\ \E keys \in SUBSET Keys : Apply("omit", Ok(ObjectSchema_omit(schema, keys)))

Next ==
  \/ CallIs
  \/ CallCheck
  \/ CallTest
  \/ CallValidate
  \/ CallDecode
  \/ CallTryDecode
  \/ CallEncode
  \/ CallTryEncode
  \/ CallExtends
  \/ CallPick
  \/ CallOmit

Spec == Init /\ [][Next]_vars

TypeOK ==
  op \in {"new", "is", "check", "test", "validate", "decode", "tryDecode",
          "encode", "tryEncode", "extends", "pick", "omit"}

-----------------------------------------------------------------------------
(* Builders (builder.ts, schema.ts).  Schema instances live on a heap:     *)
(* insts[i] is the instance with reference i, arrs[r] the constraint array *)
(* with reference r; reference 0 stands for an absent definition key.      *)

Callers == {1, 2}

\* The definition `{}` the static instances are constructed with
NoDefinition ==
  [constraints |-> 0, label |-> None, name |-> None, description |-> None,
   schema |-> 0]

\* new Ctor(definition, parent)
Instance(cls, definition, parent) ==
  [cls |-> cls, definition |-> definition, parent |-> parent]

\* NumberSchema.instance, the instance every number() call returns
NumberSchema_instance == 1

\* The heap once the module is loaded
StaticInsts == <<Instance("number", NoDefinition, 0)>>

\* this.get(key): the entry of the instance's own definition
ImmutableBuilder_get(I, this, key) == I[this].definition[key]

\* A clone that would construct the base class instead of this.constructor
ImmutableBuilder_clone_BaseClass(I, this, newDefinition) ==
  [heap |-> Append(I, Instance("ImmutableBuilder", newDefinition, this)),
   ret |-> Len(I) + 1]

\* this.clone(newDefinition): a new instance of the same class whose parent
\* is this
ImmutableBuilder_clone(I, this, newDefinition) ==
  [heap |-> Append(I, Instance(I[this].cls, newDefinition, this)),
   ret |-> Len(I) + 1]

\* A set that would store the value in this.definition and return this
ImmutableBuilder_set_InPlace(I, this, key, value) ==
  [heap |-> [I EXCEPT ![this].definition[key] = value], ret |-> this]

\* this.set(key, value): clone with a copy of the definition in which key
\* is value
ImmutableBuilder_set(I, this, key, value) ==
  ImmutableBuilder_clone(I, this, [I[this].definition EXCEPT ![key] = value])

\* The constraints getter: this.get('constraints') ?? []
Schema_constraints(I, A, this) ==
  IF I[this].definition.constraints = 0 THEN <<>>
  ELSE A[I[this].definition.constraints]

\* XSchema.create(schema): new XSchema({ schema })
Wrapper_create(I, cls, inner) ==
  [heap |-> Append(I, Instance(cls, [NoDefinition EXCEPT !.schema = inner], 0)),
   ret |-> Len(I) + 1]

\* The schema an instance denotes: its class, its constraint list and the
\* schema of the instance it wraps
RECURSIVE SchemaOf(_, _, _)
SchemaOf(I, A, this) ==
  LET own == [k |-> I[this].cls, cs |-> Schema_constraints(I, A, this)]
      inner == I[this].definition.schema
  IN IF inner = 0 THEN own
     ELSE [k |-> own.k, cs |-> own.cs, schema |-> SchemaOf(I, A, inner)]

\* The values the callers check instances against
Probes ==
  {Undefined, Null, Num(-1), Num(5), Num(11), Str("5"), Arr(<<>>),
   Arr(<<Num(11), Num(-1)>>), PromiseV(Fulfilled(Num(5)))}

\* One fluent call of a caller on an instance, with the heap it leaves
Fluent(by, this, method, arg, out, A) ==
  /\ Len(insts) < MaxInsts
  /\ insts' = out.heap
  /\ arrs' = A
  /\ ret' = out.ret
  /\ recv' = [by |-> by, on |-> this, method |-> method, arg |-> arg]
  /\ UNCHANGED <<schema, input, op, result, store, awaits>>

\* A rule that would push the constraint onto the array the receiver holds
Schema_rule_Push(by, this, method, c) ==
  LET held == insts[this].definition.constraints
      A == IF held = 0 THEN Append(arrs, <<c>>)
           ELSE [arrs EXCEPT ![held] = Append(@, c)]
      pushed == IF held = 0 THEN Len(A) ELSE held
  IN Fluent(by, this, method, c,
            ImmutableBuilder_set(insts, this, "constraints", pushed), A)

\* this.rule(constraint): set('constraints', this.constraints.concat(c))
Schema_rule(by, this, method, c) ==
  LET concat == Schema_constraints(insts, arrs, this) \o <<c>>
      A == Append(arrs, concat)
  IN Fluent(by, this, method, c,
            ImmutableBuilder_set(insts, this, "constraints", Len(A)), A)

CustomRule == Constraint("number.max", "custom", 5)

BuilderRule(by, this) == Schema_rule(by, this, "rule", CustomRule)

BuilderMin(by, this) ==
  /\ insts[this].cls \in {"number", "array"}
  /\ Schema_rule(by, this, "min",
                 IF insts[this].cls = "number" THEN NumberMin(0)
                 ELSE ArrayMin(1))

BuilderMax(by, this) ==
  /\ insts[this].cls \in {"number", "array"}
  /\ Schema_rule(by, this, "max",
                 IF insts[this].cls = "number" THEN NumberMax(10)
                 ELSE ArrayMax(1))

\* The texts the callers label instances with
Labels == {"l", "m"}

BuilderLabel(by, this) ==
  \E value \in Labels :
    Fluent(by, this, "label", value,
           ImmutableBuilder_set(insts, this, "label", Some(value)), arrs)

BuilderName(by, this) ==
  Fluent(by, this, "name", "n",
         ImmutableBuilder_set(insts, this, "name", Some("n")), arrs)

BuilderDescription(by, this) ==
  Fluent(by, this, "description", "d",
         ImmutableBuilder_set(insts, this, "description", Some("d")), arrs)

BuilderArray(by, this) ==
  Fluent(by, this, "array", None, Wrapper_create(insts, "array", this), arrs)

BuilderOptional(by, this) ==
  Fluent(by, this, "optional", None, Wrapper_create(insts, "optional", this), arrs)

BuilderNullable(by, this) ==
  Fluent(by, this, "nullable", None, Wrapper_create(insts, "nullable", this), arrs)

BuilderJSON(by, this) ==
  Fluent(by, this, "json", None, Wrapper_create(insts, "json", this), arrs)

BuilderPromise(by, this) ==
  Fluent(by, this, "promise", None, Wrapper_create(insts, "promise", this), arrs)

InitBuilder ==
  /\ schema = NumberSchema
  /\ input = Undefined
  /\ op = "new"
  /\ result = None
  /\ insts = StaticInsts
  /\ arrs = <<>>
  /\ ret = 0
  /\ recv = [by |-> 0, on |-> 0, method |-> "none", arg |-> None]
  /\ store = <<>>
  /\ awaits = 0

NextBuilder ==
  \E by \in Callers : \E this \in DOMAIN insts :
    \/ BuilderRule(by, this)
    \/ BuilderMin(by, this)
    \/ BuilderMax(by, this)
    \/ BuilderLabel(by, this)
    \/ BuilderName(by, this)
    \/ BuilderDescription(by, this)
    \/ BuilderArray(by, this)
    \/ BuilderOptional(by, this)
    \/ BuilderNullable(by, this)
    \/ BuilderJSON(by, this)
    \/ BuilderPromise(by, this)

SpecBuilder == InitBuilder /\ [][NextBuilder]_vars

-----------------------------------------------------------------------------
(* The metadata store (metadata.ts): store is the WeakMap of one Metadata  *)
(* instance, keyed by the references of the instances of the heap.         *)

\* this.map.get(target)
WeakMap_get(M, target) == IF target \in DOMAIN M THEN M[target] ELSE Undefined

\* A get that would answer from the map entry of the target alone
Metadata_get_OwnOnly(I, M, target) == WeakMap_get(M, target)

RECURSIVE Metadata_get(_, _, _)
\* metadata.get(target): the entry of the target, or else what get answers
\* for its parent
Metadata_get(I, M, target) ==
  LET value == WeakMap_get(M, target)
  IN IF value # Undefined THEN value
     ELSE IF I[target].parent # 0 THEN Metadata_get(I, M, I[target].parent)
     ELSE Undefined

\* metadata.set(target, value): this.map.set(target, value)
Metadata_set(M, target, value) ==
  [i \in DOMAIN M \cup {target} |-> IF i = target THEN value ELSE M[i]]

\* The values stored as metadata
MetaValues == {Str("x"), Str("y"), Undefined}

\* instance.clone()
BuilderClone(by, this) ==
  Fluent(by, this, "clone", None,
         ImmutableBuilder_clone(insts, this, insts[this].definition), arrs)

\* metadata.set(instance, value) by a caller
MetadataSet(by, this) ==
  \E value \in MetaValues :
    /\ store' = Metadata_set(store, this, value)
    /\ recv' = [by |-> by, on |-> this, method |-> "metadata.set", arg |-> value]
    /\ UNCHANGED <<schema, input, op, result, insts, arrs, ret, awaits>>

NextMeta ==
  \E this \in DOMAIN insts :
    \/ BuilderClone(1, this)
    \/ BuilderLabel(1, this)
    \/ MetadataSet(1, this)

SpecMeta == InitBuilder /\ [][NextMeta]_vars

-----------------------------------------------------------------------------
(* The promise schema (schema.ts).  decode and encode of a PromiseSchema   *)
(* are async functions: the call runs to its `await value`, returns the    *)
(* pending Promise of the function and is resumed once the awaited value   *)
(* has settled.  awaits counts the await expressions evaluated.            *)

\* `await value`: the settlement the function is resumed with; a value that
\* is no Promise is awaited as a Promise fulfilled with it
Awaited(v) == IF v.t = "promise" THEN v.p ELSE Fulfilled(v)

\* A continuation that would fulfil with the awaited value itself
PromiseSchema_decode_NoDelegate(s, p) == p

\* PromiseSchema.decode after its await: `return this.schema.decode(x)`; a
\* rejected await or a throwing decode rejects the Promise of the function
PromiseSchema_decode(s, p) ==
  IF p.state = "rejected" THEN p
  ELSE LET out == Decode(s.schema, p.value)
       IN IF out.ok THEN Fulfilled(out.v) ELSE Rejected(out.e)

\* PromiseSchema.encode after its await: `return this.schema.encode(x)`
PromiseSchema_encode(s, p) ==
  IF p.state = "rejected" THEN p
  ELSE LET out == Encode(s.schema, p.value)
       IN IF out.ok THEN Fulfilled(out.v) ELSE Rejected(out.e)

\* The operations that call an async function
AsyncOps == {"decode", "encode", "tryDecode", "tryEncode"}

\* The Promise an operation on a promise schema returned
Returned(name, r) == IF name \in {"decode", "encode"} THEN r.v ELSE r.value

\* The schemas promise() wraps
Inner ==
  {NumberSchema, Ranged, StringSchema, NullSchema, LiteralSchema(Str("a")),
   ArraySchema(Ranged), ObjA(Ranged)}
PromiseSchemas == {PromiseSchema(s) : s \in Inner}

\* The values a pending input fulfils with, and the reasons it rejects with
Settlements ==
  {Num(5), Num(11), Str("1"), Str("a"), Null, Arr(<<Num(5), Num(11)>>),
   Obj([key \in {"a"} |-> Num(5)])}
Reasons == {[name |-> "Error"]}
AsyncInputs == {PromiseV(Pending), Num(5), Str("a"), Null}

InitAsync ==
  /\ schema \in PromiseSchemas \cup Inner
  /\ input \in AsyncInputs
  /\ op = "new"
  /\ result = None
  /\ insts = NoInsts /\ arrs = <<>> /\ ret = <<>> /\ recv = <<>>
  /\ store = <<>> /\ awaits = 0

\* The call of an async method: it evaluates its one await and hands the
\* caller the value built around the pending Promise of the function
Suspend(name, value) ==
  /\ op = "new"
  /\ schema.k = "promise"
  /\ op' = name
  /\ result' = value
  /\ awaits' = awaits + 1
  /\ UNCHANGED <<schema, input, insts, arrs, ret, recv, store>>

PromiseDecode == Suspend("decode", Ok(PromiseV(Pending)))
PromiseEncode == Suspend("encode", Ok(PromiseV(Pending)))
PromiseTryDecode ==
  Suspend("tryDecode", ParseResult(Ok(PromiseV(Pending)), "decode",
                                   "An error has occurred during decoding"))
PromiseTryEncode ==
  Suspend("tryEncode", ParseResult(Ok(PromiseV(Pending)), "encode",
                                   "An error has occurred during encoding"))

\* The environment settles the pending input
Settle ==
  /\ input = PromiseV(Pending)
  /\ \E q \in {Fulfilled(x) : x \in Settlements} \cup {Rejected(e) : e \in Reasons} :
       input' = PromiseV(q)
  /\ UNCHANGED <<schema, op, result, insts, arrs, ret, recv, store, awaits>>

\* The suspended function is resumed with the settlement of its await and
\* settles the Promise it returned
Resume ==
  /\ op \in AsyncOps
  /\ schema.k = "promise"
  /\ Returned(op, result).p = Pending
  /\ Awaited(input) # Pending
  /\ LET q == IF op \in {"decode", "tryDecode"}
              THEN PromiseSchema_decode(schema, Awaited(input))
              ELSE PromiseSchema_encode(schema, Awaited(input))
     IN result' = IF op \in {"decode", "encode"} THEN Ok(PromiseV(q))
                  ELSE [result EXCEPT !.value = PromiseV(q)]
  /\ UNCHANGED <<schema, input, op, insts, arrs, ret, recv, store, awaits>>

\* decode and encode of the schemas that are no promise schema
SyncDecode == schema.k # "promise" /\ CallDecode
SyncEncode == schema.k # "promise" /\ CallEncode
SyncTryDecode == schema.k # "promise" /\ CallTryDecode
SyncTryEncode == schema.k # "promise" /\ CallTryEncode

NextAsync ==
  \/ CallIs
  \/ CallCheck
  \/ CallTest
  \/ CallValidate
  \/ SyncDecode
  \/ SyncEncode
  \/ SyncTryDecode
  \/ SyncTryEncode
  \/ PromiseDecode
  \/ PromiseEncode
  \/ PromiseTryDecode
  \/ PromiseTryEncode
  \/ Settle
  \/ Resume

\* The job queue runs every continuation whose await has settled
SpecAsync == InitAsync /\ [][NextAsync]_vars /\ WF_vars(Resume)

-----------------------------------------------------------------------------
(* Claims *)

\* C1: whenever S.decode(i) returns without throwing, S.is of the returned
\* value is true.
C1_DecodeThenIs ==
  (op = "decode" /\ result.ok) => Is(schema, result.v)

\* The smallest index of a union member whose is accepts the input, 0 if none
FirstAccepting(s, v) ==
  IF \E i \in DOMAIN s.members : Is(s.members[i], v)
  THEN CHOOSE i \in DOMAIN s.members :
         Is(s.members[i], v) /\ \A j \in 1..(i - 1) : ~Is(s.members[j], v)
  ELSE 0

\* The smallest index of a union member whose decode returns, 0 if none
FirstDecoding(s, v) ==
  IF \E i \in DOMAIN s.members : Decode(s.members[i], v).ok
  THEN CHOOSE i \in DOMAIN s.members :
         Decode(s.members[i], v).ok /\ \A j \in 1..(i - 1) : ~Decode(s.members[j], v).ok
  ELSE 0

\* C2: every fluent call returns an instance other than the one it was
\* called on, and leaves check(v) and validate(v) of every instance that
\* existed before the call, the shared number() instance included, as they
\* were, for every probe value and whichever caller made the call.
C2_BuilderImmutable ==
  [][/\ ret' # recv'.on
     /\ \A s \in DOMAIN insts :
          /\ s \in DOMAIN insts'
          /\ \A v \in Probes :
               /\ Check(SchemaOf(insts', arrs', s), v)
                    = Check(SchemaOf(insts, arrs, s), v)
               /\ Validate(SchemaOf(insts', arrs', s), v)
                    = Validate(SchemaOf(insts, arrs, s), v)]_vars

\* C2 witness: after one caller derived a constrained instance from the
\* shared number() instance, the other caller constrained the shared
\* instance too, and the two derived instances check 11 differently from
\* the shared one
C2_Witness ==
  /\ recv.on = NumberSchema_instance
  /\ recv.by = 2
  /\ recv.method = "max"
  /\ \E d \in DOMAIN insts :
       /\ insts[d].parent = NumberSchema_instance
       /\ d # ret
       /\ Schema_constraints(insts, arrs, d) # <<>>
  /\ Check(SchemaOf(insts, arrs, ret), Num(11)) # Ok(<<>>)
  /\ Check(SchemaOf(insts, arrs, NumberSchema_instance), Num(11)) = Ok(<<>>)

\* C5: when some member's is accepts the input, union.decode returns exactly
\* what the first such member's decode does with it.
C5_UnionFirstMatch ==
  (op = "decode" /\ schema.k = "union" /\ FirstAccepting(schema, input) # 0)
    => result = Decode(schema.members[FirstAccepting(schema, input)], input)

\* C6: when no member's is accepts the input, union.decode returns the result
\* of the first member whose decode does not throw, and throws
\* UnsupportedTypeError carrying the input exactly when every member throws.
C6_UnionBruteForce ==
  (op = "decode" /\ schema.k = "union" /\ FirstAccepting(schema, input) = 0)
    => LET k == FirstDecoding(schema, input)
       IN /\ k # 0 => result = Decode(schema.members[k], input)
          /\ k = 0 <=> ~result.ok
          /\ k = 0 => result = Throw(UnsupportedTypeError(input, None))

\* C6 witness: the first member threw, a later one decoded the input
C6_Witness ==
  /\ op = "decode" /\ schema.k = "union"
  /\ FirstAccepting(schema, input) = 0
  /\ FirstDecoding(schema, input) > 1
  /\ result.ok

\* The outcomes of decoding the input with each member of an intersect
MemberResults(s, v) == [i \in DOMAIN s.members |-> Decode(s.members[i], v)]

\* The members whose decode result is object-typed and has the key
Producers(outs, key) ==
  {i \in DOMAIN outs : IsObjectTyped(outs[i].v) /\ key \in DOMAIN OwnProps(outs[i].v)}

Least(S) == CHOOSE i \in S : \A j \in S : i <= j

\* The result holds every key of every object-typed member result, with the
\* value of the earliest member that produced the key
KeepsFirstSeen(outs, res) ==
  \A i \in DOMAIN outs :
    \A key \in (IF IsObjectTyped(outs[i].v) THEN DOMAIN OwnProps(outs[i].v) ELSE {}) :
      /\ key \in DOMAIN OwnProps(res)
      /\ OwnProps(res)[key] = OwnProps(outs[Least(Producers(outs, key))].v)[key]

AllDecode(s, v) == \A i \in DOMAIN s.members : Decode(s.members[i], v).ok

\* C7 (as stated): for every input on which no member's decode throws,
\* intersect.decode returns a value holding every key of any member's
\* object-typed result, the earliest producing member's value winning.
C7_IntersectMergeAnyInput ==
  (op = "decode" /\ schema.k = "intersect" /\ AllDecode(schema, input))
    => /\ result.ok
       /\ KeepsFirstSeen(MemberResults(schema, input), result.v)

\* C7 (amended): the same for every input that the intersect's is rejects;
\* the result is then a plain object.
C7_IntersectMerge ==
  (op = "decode" /\ schema.k = "intersect" /\ AllDecode(schema, input)
     /\ ~Is(schema, input))
    => /\ result.ok
       /\ result.v.t = "object"
       /\ KeepsFirstSeen(MemberResults(schema, input), result.v)

\* C7 witness: two members produced the same key with different values
C7_Witness ==
  /\ op = "decode" /\ schema.k = "intersect" /\ AllDecode(schema, input)
  /\ ~Is(schema, input)
  /\ LET outs == MemberResults(schema, input)
     IN \E key \in Keys :
          \E i, j \in Producers(outs, key) :
            /\ i < j
            /\ OwnProps(outs[i].v)[key] # OwnProps(outs[j].v)[key]
            /\ result.v.o[key] = OwnProps(outs[i].v)[key]

\* The combinators that recurse into keyed or indexed children
Keyed == {"array", "tuple", "object", "map"}

\* The children decode of a keyed combinator recurses into, in iteration
\* order, as <<local key or index, child schema, child input>>; none when the
\* combinator rejects the shape of the input itself.  A map entry is decoded
\* by the value schema (the key schemas of the model never throw).
DecodeChildren(s, v) ==
  CASE s.k = "array" ->
         LET values == IF IsArray(v) THEN v.a ELSE IF ~Nullish(v) THEN <<v>> ELSE <<>>
         IN [i \in DOMAIN values |-> <<IntToStr(i - 1), s.schema, values[i]>>]
    [] s.k = "tuple" /\ IsArray(v) ->
         [i \in DOMAIN s.items |-> <<IntToStr(i - 1), s.items[i], Index(v, i - 1)>>]
    [] s.k = "object" /\ TypeOf(v) = "object" /\ v # Null ->
         [i \in DOMAIN s.properties |->
            <<s.properties[i][1], s.properties[i][2], Get(v, s.properties[i][1])>>]
    [] s.k = "map" /\ toEntries(v).ok ->
         LET es == toEntries(v).v
         IN [i \in DOMAIN es |-> <<JSString(es[i][1]), s.value, es[i][2]>>]
    [] OTHER -> <<>>

\* The first child whose decode throws, 0 if none
FirstFailing(children) ==
  IF \E i \in DOMAIN children : ~Decode(children[i][2], children[i][3]).ok
  THEN CHOOSE i \in DOMAIN children :
         /\ ~Decode(children[i][2], children[i][3]).ok
         /\ \A j \in 1..(i - 1) : Decode(children[j][2], children[j][3]).ok
  ELSE 0

\* The children check of a keyed combinator recurses into
CheckChildren(s, v) ==
  CASE s.k = "array" /\ IsArray(v) ->
         [i \in DOMAIN v.a |-> <<IntToStr(i - 1), Check(s.schema, v.a[i])>>]
    [] s.k = "tuple" /\ ~Nullish(v) ->
         [i \in DOMAIN s.items |-> <<IntToStr(i - 1), Check(s.items[i], Index(v, i - 1))>>]
    [] s.k = "object" /\ ~Nullish(v) ->
         [i \in DOMAIN s.properties |->
            <<s.properties[i][1], Check(s.properties[i][2], Get(v, s.properties[i][1]))>>]
    [] s.k = "map" /\ HasEntries(v) ->
         LET es == Entries(v)
         IN [i \in DOMAIN es |->
               <<JSString(es[i][1]),
                 Concat(<<Check(s.key, es[i][1]), Check(s.value, es[i][2])>>)>>]
    [] OTHER -> <<>>

\* A path that starts with the given segment and has no empty segment
StartsWith(path, key) ==
  /\ path.some
  /\ path.x # <<>>
  /\ path.x[1] = key
  /\ \A i \in DOMAIN path.x : path.x[i] # ""

\* C3: a violation or thrown error that originates in a keyed or indexed
\* child of an array, tuple, object or map carries a path whose first
\* segment is the local key or index of that child, with no empty segment.
C3_ChildPathPrefixed ==
  /\ (op = "decode" /\ schema.k \in Keyed /\ ~result.ok
        /\ IsViolationError(result.e)
        /\ FirstFailing(DecodeChildren(schema, input)) # 0)
       => LET children == DecodeChildren(schema, input)
          IN StartsWith(result.e.path, children[FirstFailing(children)][1])
  /\ (op = "check" /\ schema.k \in Keyed /\ result.ok)
       => LET children == CheckChildren(schema, input)
              own == Len(Schema_check(schema, input).v)
          IN \A n \in DOMAIN result.v :
               n > own =>
                 \E i \in DOMAIN children :
                   /\ children[i][2].ok /\ children[i][2].v # <<>>
                   /\ StartsWith(result.v[n].path, children[i][1])

RECURSIVE FailingPath(_, _)
\* The keys and indices from a schema down to the leaf whose decode of the
\* input throws, outermost first
FailingPath(s, v) ==
  LET children == DecodeChildren(s, v)
      bad == FirstFailing(children)
  IN CASE s.k \in Keyed /\ ~Is(s, v) /\ bad # 0 ->
            <<children[bad][1]>> \o FailingPath(children[bad][2], children[bad][3])
       [] s.k = "nullable" /\ v # Null -> FailingPath(s.schema, v)
       [] s.k = "optional" /\ v # Undefined -> FailingPath(s.schema, v)
       [] OTHER -> <<>>

\* C4: the error of a nested decode failure, and the violation tryDecode
\* returns for it, has as path the dot-joined keys and indices from the root
\* to the failing leaf, outermost first.
C4_NestedDecodePath ==
  LET nested == /\ schema.k \in Keyed
                /\ ~Decode(schema, input).ok
                /\ IsViolationError(Decode(schema, input).e)
                /\ FirstFailing(DecodeChildren(schema, input)) # 0
  IN /\ (op = "decode" /\ nested)
          => result.e.path = Some(FailingPath(schema, input))
     /\ (op = "tryDecode" /\ nested)
          => /\ ~result.success
             /\ Len(result.violations) = 1
             /\ result.violations[1].path = Some(FailingPath(schema, input))

\* C8: check, test and validate return a structured result and never
\* throw, whatever the runtime type of the value.
C8_CheckNeverThrows ==
  op \in {"check", "test", "validate"} => result.ok

\* The violation check reports for a constraint
ViolationOf(c) ==
  [type |-> c.type, message |-> c.message, args |-> c.args, path |-> None]

\* The constraints of the schema that the value fails, in attachment order
FailedConstraints(s, v) ==
  SelectSeq(s.cs, LAMBDA c : ~ConstraintTest(c, v).v)

Combinators ==
  {"array", "json", "nullable", "optional", "promise", "map", "set", "tuple",
   "object", "union", "intersect"}

\* C9: check reports exactly one violation, with the constraint's type,
\* message and args, for each attached constraint whose test is false, in
\* attachment order, a failing constraint never hiding a later one; so
\* number().min(0).max(10).validate(-1) reports exactly number.min and
\* test(11) is false.
C9_OneViolationPerFailedRule ==
  /\ (op = "check" /\ result.ok)
       => LET failed == FailedConstraints(schema, input)
          IN /\ Len(result.v) >= Len(failed)
             /\ \A i \in DOMAIN failed : result.v[i] = ViolationOf(failed[i])
             /\ schema.k \notin Combinators => Len(result.v) = Len(failed)
  /\ (op = "validate" /\ schema = Ranged /\ input = Num(-1))
       => result = Ok([valid |-> FALSE, violations |-> <<ViolationOf(NumberMin(0))>>])
  /\ (op = "test" /\ schema = Ranged /\ input = Num(11))
       => result = Ok(FALSE)

\* C9 witness: the first of two constraints failed and the second was still
\* reported
C9_Witness ==
  /\ op = "check" /\ result.ok
  /\ schema.k \notin Combinators
  /\ Len(schema.cs) = 2
  /\ Len(result.v) = 2
  /\ result.v[1].type = schema.cs[1].type
  /\ result.v[2].type = schema.cs[2].type

\* The child checks of a combinator without keys, in iteration order
PlainChildren(s, v) ==
  CASE s.k \in {"json", "promise"} -> <<Check(s.schema, v)>>
    [] s.k \in {"nullable", "optional"} ->
         IF Is(s.schema, v) THEN <<Check(s.schema, v)>> ELSE <<>>
    [] s.k = "set" /\ HasEntries(v) ->
         [i \in DOMAIN Values(v) |-> Check(s.value, Values(v)[i])]
    [] s.k = "union" ->
         LET accepting == SelectSeq(s.members, LAMBDA member : Is(member, v))
         IN [i \in DOMAIN accepting |-> Check(accepting[i], v)]
    [] s.k = "intersect" -> [i \in DOMAIN s.members |-> Check(s.members[i], v)]
    [] OTHER -> <<>>

\* The violations of the children, each under the key or index of its child
ChildViolations(s, v) ==
  IF s.k \in Keyed
  THEN LET children == CheckChildren(s, v)
       IN FlattenFrom([i \in DOMAIN children |->
            [n \in DOMAIN children[i][2].v |->
               [children[i][2].v[n] EXCEPT
                  !.path = Some(resolvePath(Some(<<children[i][1]>>), @))]]], 1)
  ELSE LET children == PlainChildren(s, v)
       IN FlattenFrom([i \in DOMAIN children |-> children[i].v], 1)

\* C10: the list a combinator's check returns is its own violations followed
\* by the violations of its children in iteration order, none dropped.
C10_OwnThenChildren ==
  (op = "check" /\ result.ok /\ schema.k \in Combinators)
    => LET own == FailedConstraints(schema, input)
           kids == ChildViolations(schema, input)
       IN /\ Len(result.v) = Len(own) + Len(kids)
          /\ \A i \in DOMAIN own : result.v[i] = ViolationOf(own[i])
          /\ \A i \in DOMAIN kids : result.v[Len(own) + i] = kids[i]

\* C10 witness: a combinator reported an own violation and a child's
C10_Witness ==
  /\ op = "check" /\ result.ok /\ schema.k \in Combinators
  /\ FailedConstraints(schema, input) # <<>>
  /\ ChildViolations(schema, input) # <<>>
  /\ result.v[Len(result.v)].path.some

\* C11: array(S).is(v) is true exactly when v is an array and S.is accepts
\* every element of v, undefined and null elements included.
C11_ArrayIsEveryElement ==
  (op = "is" /\ schema.k = "array") =>
    (result = (/\ IsArray(input)
               /\ \A i \in DOMAIN input.a : Is(schema.schema, input.a[i])))

\* The decode outcomes of a sequence of <<schema, value>> pairs
DecodeEach(pairs) == [i \in DOMAIN pairs |-> Decode(pairs[i][1], pairs[i][2])]

AllOk(outs) == \A i \in DOMAIN outs : outs[i].ok

ValuesOf(outs) == [i \in DOMAIN outs |-> outs[i].v]

IsUnsupportedType(out) == ~out.ok /\ out.e.name = "UnsupportedTypeError"

\* C12: for a non-null object input, object(P).decode returns an object with
\* exactly the keys declared in P, each mapped to its schema's decode of
\* v[key], so undeclared keys of v never appear; every other input throws
\* UnsupportedTypeError.
C12_ObjectDecodeDeclaredKeys ==
  (op = "decode" /\ schema.k = "object") =>
    IF TypeOf(input) = "object" /\ input # Null
    THEN LET P == schema.properties
             outs == DecodeEach([i \in DOMAIN P |-> <<P[i][2], Get(input, P[i][1])>>])
         IN AllOk(outs) =>
              /\ result.ok
              /\ result.v.t = "object"
              /\ DOMAIN result.v.o = {P[i][1] : i \in DOMAIN P}
              /\ \A i \in DOMAIN P : result.v.o[P[i][1]] = outs[i].v
    ELSE IsUnsupportedType(result)

\* C13: for an array input, tuple(s1..sn).decode returns an array of exactly
\* n items whose i-th item is si.decode(v[i]), dropping the input items from
\* position n on; every non-array input throws UnsupportedTypeError.
C13_TupleDecodeArity ==
  (op = "decode" /\ schema.k = "tuple") =>
    IF IsArray(input)
    THEN LET items == schema.items
             outs == DecodeEach([i \in DOMAIN items |-> <<items[i], Index(input, i - 1)>>])
         IN AllOk(outs) => result = Ok(Arr(ValuesOf(outs)))
    ELSE IsUnsupportedType(result)

\* Whether a Set holds exactly the distinct values of a sequence, where
\* object-typed values are all distinct
HoldsDistinct(e, vs) ==
  /\ \A i \in DOMAIN vs : \E j \in DOMAIN e : e[j] = vs[i]
  /\ \A j \in DOMAIN e : \E i \in DOMAIN vs : e[j] = vs[i]
  /\ \A j, k \in DOMAIN e :
       (j # k /\ e[j] = e[k]) => (IsObjectTyped(e[j]) /\ e[j] # Null)
  /\ \A i \in DOMAIN vs :
       (IsObjectTyped(vs[i]) /\ vs[i] # Null) =>
         Cardinality({j \in DOMAIN e : e[j] = vs[i]})
           = Cardinality({k \in DOMAIN vs : vs[k] = vs[i]})

\* What set(S).decode does with an input its is rejects: the Set of the
\* decoded elements of an array, UnsupportedTypeError for anything else
SetDecodesArray ==
  IF IsArray(input)
  THEN LET outs == DecodeEach([i \in DOMAIN input.a |-> <<schema.value, input.a[i]>>])
       IN AllOk(outs) =>
            /\ result.ok
            /\ result.v.t = "set"
            /\ HoldsDistinct(result.v.e, ValuesOf(outs))
  ELSE IsUnsupportedType(result)

\* C14 (as stated): set(S).decode succeeds only for an array, returning the
\* Set of the decoded elements with duplicates collapsed, and throws
\* UnsupportedTypeError for every other input.
C14_SetDecodeArraysOnly ==
  (op = "decode" /\ schema.k = "set") => SetDecodesArray

\* C14 (amended): a Set that set(S).is accepts is returned unchanged; every
\* other input is treated as stated.
C14_SetDecode ==
  (op = "decode" /\ schema.k = "set") =>
    IF Is(schema, input) THEN result = Ok(input) ELSE SetDecodesArray

\* C14 witness: an array with a repeated element decoded to a smaller Set
C14_Witness ==
  /\ op = "decode"
  /\ schema.k = "set"
  /\ IsArray(input)
  /\ result.ok
  /\ Len(result.v.e) < Len(input.a)

\* C15: array(S).decode(v) is v itself when array(S).is(v) is true,
\* otherwise the decoded elements of an array v, otherwise [S.decode(v)] for a
\* v that is neither null nor undefined, and [] for null and undefined.
C15_ArrayDecode ==
  (op = "decode" /\ schema.k = "array") =>
    LET items == IF IsArray(input) THEN input.a
                 ELSE IF input \in {Null, Undefined} THEN <<>>
                 ELSE <<input>>
        outs == DecodeEach([i \in DOMAIN items |-> <<schema.schema, items[i]>>])
    IN IF Is(schema, input) THEN result = Ok(input)
       ELSE AllOk(outs) => result = Ok(Arr(ValuesOf(outs)))

\* C15 witness: array(string()).decode(5) is ["5"]
C15_Witness ==
  /\ op = "decode"
  /\ schema = ArraySchema(StringSchema)
  /\ input = Num(5)
  /\ result = Ok(Arr(<<Str("5")>>))

\* The four input shapes of map(K, V).decode and the entries each yields
MapShaped(v) == IsArray(v) \/ v.t = "map" \/ v.t = "object"

EntriesOfShape(v) ==
  CASE IsArray(v) ->
         [i \in DOMAIN v.a |->
            IF IsArray(v.a[i]) THEN <<Index(v.a[i], 0), Index(v.a[i], 1)>>
            ELSE <<v.a[i], Undefined>>]
    [] v.t = "map" -> v.m
    [] v.t = "object" -> ObjectEntries(v)

\* C16: map(K, V).decode accepts an array of non-array items, an array of
\* [k, v] pairs, a Map and a non-null plain object, returning a Map with one
\* entry (K.decode(k), V.decode(x)) per input entry, and throws
\* UnsupportedTypeError for every other input.
C16_MapDecodeShapes ==
  (op = "decode" /\ schema.k = "map") =>
    IF MapShaped(input)
    THEN LET es == EntriesOfShape(input)
             keys == DecodeEach([i \in DOMAIN es |-> <<schema.key, es[i][1]>>])
             vals == DecodeEach([i \in DOMAIN es |-> <<schema.value, es[i][2]>>])
         IN (AllOk(keys) /\ AllOk(vals)) =>
              /\ result.ok
              /\ result.v.t = "map"
              /\ result.v.m = [i \in DOMAIN es |-> <<keys[i].v, vals[i].v>>]
    ELSE IsUnsupportedType(result)

\* What tryDecode or tryEncode returns for the outcome of decode or encode
Wraps(out, type) ==
  IF out.ok THEN result = [success |-> TRUE, value |-> out.v]
  ELSE IF out.e.name \in {"UnsupportedTypeError", "UnsupportedValueError"}
    THEN result = [success |-> FALSE, violations |-> out.e.violations]
  ELSE /\ DOMAIN result = {"success", "violations"}
       /\ result.success = FALSE
       /\ Len(result.violations) = 1
       /\ result.violations[1].type = type
       /\ result.violations[1].args = Some([error |-> out.e])

\* C17: tryDecode and tryEncode never throw: they return the decoded or
\* encoded value on success, the violations of a thrown ViolationError, and
\* for any other thrown error exactly one violation of type "decode" or
\* "encode" whose args hold the error.
C17_TryNeverThrows ==
  /\ op = "tryDecode" => Wraps(Decode(schema, input), "decode")
  /\ op = "tryEncode" => Wraps(Encode(schema, input), "encode")

\* C17 witness: tryEncode wrapped the RangeError of an invalid Date
C17_Witness ==
  /\ op = "tryEncode"
  /\ ~Encode(schema, input).ok
  /\ Encode(schema, input).e = RangeError
  /\ result.violations[1].type = "encode"

\* C18: decode of the boolean, number, string, any and unknown schemas
\* returns a value of the schema's type for every input and never throws.
C18_PrimitiveDecodeTotal ==
  (op = "decode" /\ schema.k \in {"boolean", "number", "string", "any", "unknown"}) =>
    (result.ok /\ Is(schema, result.v))

\* C19: date().decode returns a Date instance itself, the parsed Date for a
\* text that parses, throws UnsupportedValueError for a text that does not
\* parse and UnsupportedTypeError for every other runtime type.
C19_DateDecode ==
  (op = "decode" /\ schema.k = "date") =>
    CASE input.t = "date" -> result = Ok(input)
      [] input.t = "string" /\ DateParse(input.s) # NaN ->
           result = Ok(DateV(DateParse(input.s)))
      [] input.t = "string" /\ DateParse(input.s) = NaN ->
           ~result.ok /\ result.e.name = "UnsupportedValueError"
      [] OTHER -> IsUnsupportedType(result)

\* C19 witness: date().decode("not-a-date") threw UnsupportedValueError
C19_Witness ==
  /\ op = "decode"
  /\ schema = DateSchema
  /\ input = Str("not-a-date")
  /\ ~result.ok
  /\ result.e.name = "UnsupportedValueError"

\* S.decode(S.encode(d)) for a decoded value d
Redecoded(s, d) ==
  LET e == Encode(s, d) IN IF e.ok THEN Decode(s, e.v) ELSE e

\* C20: for the string, number and boolean schemas and every input i,
\* S.decode(S.encode(S.decode(i))) equals S.decode(i), NaN equal to NaN.
C20_RoundTrip ==
  (op = "decode" /\ schema.k \in {"string", "number", "boolean"} /\ result.ok) =>
    Redecoded(schema, result.v) = result

\* C20 witness: boolean().decode coerced a falsy input to false
C20_Witness ==
  /\ op = "decode"
  /\ schema = BooleanSchema
  /\ input = Str("")
  /\ result = Ok(Bool(FALSE))

-----------------------------------------------------------------------------
(* Builders: classes and definitions (builder.ts, cloneable.ts) *)

\* The fluent methods implemented with this.set
SetMethods == {"rule", "min", "max", "label", "name", "description"}

\* C21: the instance returned by set, and by every fluent method built on
\* set, has the concrete class of the instance it was called on.
C21_SetKeepsClass ==
  recv.method \in SetMethods => insts[ret].cls = insts[recv.on].cls

\* C21 witness: max was called on an instance of the array subclass that an
\* earlier call had derived, and returned an array instance
C21_Witness ==
  /\ recv.method = "max"
  /\ insts[recv.on].cls = "array"
  /\ ret # recv.on
  /\ insts[ret].cls = "array"

\* The definition keys of a schema
DefinitionKeys == DOMAIN NoDefinition

\* The definition key a fluent method sets
KeyOf(method) ==
  IF method \in {"rule", "min", "max"} THEN "constraints" ELSE method

\* What get(key) of an instance answers: the content of the array for the
\* constraints key, the stored entry for the others
Answer(I, A, this, key) ==
  LET held == ImmutableBuilder_get(I, this, key)
  IN IF key = "constraints" /\ held # 0 THEN Some(A[held]) ELSE held

\* C22: a call of set(k, v) on b returns an instance whose get(k) is v and
\* whose get of every other key is b's, and leaves get of every instance
\* that existed before the call as it was; so along a chain each instance
\* answers the most recent set of a key before it, or the value of the
\* first instance.
C22_GetSetFrame ==
  [][/\ \A i \in DOMAIN insts : \A key \in DefinitionKeys :
          /\ i \in DOMAIN insts'
          /\ Answer(insts', arrs', i, key) = Answer(insts, arrs, i, key)
     /\ recv'.method \in SetMethods =>
          /\ ret' \notin DOMAIN insts
          /\ Answer(insts', arrs', ret', KeyOf(recv'.method))
               = IF KeyOf(recv'.method) = "constraints"
                 THEN Some(Schema_constraints(insts, arrs, recv'.on) \o <<recv'.arg>>)
                 ELSE Some(recv'.arg)
          /\ \A key \in DefinitionKeys \ {KeyOf(recv'.method)} :
               Answer(insts', arrs', ret', key) = Answer(insts, arrs, recv'.on, key)]_vars

\* C22 witness: a chain of three instances in which the label set on the
\* second was set again on the third, the second still answering its own
\* label and the first none
C22_Witness ==
  /\ recv.method = "label"
  /\ insts[ret].parent = recv.on
  /\ insts[recv.on].parent = NumberSchema_instance
  /\ ImmutableBuilder_get(insts, NumberSchema_instance, "label") = None
  /\ ImmutableBuilder_get(insts, recv.on, "label") = Some("l")
  /\ ImmutableBuilder_get(insts, ret, "label") = Some("m")

-----------------------------------------------------------------------------
(* Decode failures of children *)

\* The error the first failing child of a keyed combinator throws
FirstChildError(s, v) ==
  LET children == DecodeChildren(s, v)
      bad == FirstFailing(children)
  IN Decode(children[bad][2], children[bad][3]).e

\* C24: the error a keyed combinator's decode throws for a failing child
\* has the class and the violation type of the child's own error (an
\* UnsupportedValueError stays "unsupported.value", an UnsupportedTypeError
\* stays "unsupported.type") and reports the same value.
C24_ChildErrorClassKept ==
  (op = "decode" /\ schema.k \in Keyed /\ ~result.ok
     /\ FirstFailing(DecodeChildren(schema, input)) # 0
     /\ IsViolationError(FirstChildError(schema, input)))
    => LET child == FirstChildError(schema, input)
       IN /\ result.e.name = child.name
          /\ result.e.value = child.value
          /\ result.e.violations[1].type = child.violations[1].type

\* The children of a keyed combinator whose decode throws
FailingChildren(s, v) ==
  LET children == DecodeChildren(s, v)
  IN {i \in DOMAIN children : ~Decode(children[i][2], children[i][3]).ok}

RECURSIVE CountFrom(_, _)
\* The number of violations the child checks children[i], children[i+1],
\* ... returned
CountFrom(children, i) ==
  IF i > Len(children) THEN 0
  ELSE Len(children[i][2].v) + CountFrom(children, i + 1)

\* check reports the own violations and those of every child
ChecksEveryChild ==
  (op = "check" /\ schema.k \in Keyed /\ result.ok)
    => Len(result.v) = Len(Schema_check(schema, input).v)
                         + CountFrom(CheckChildren(schema, input), 1)

-----------------------------------------------------------------------------
(* Union check *)

RECURSIVE AcceptingFrom(_, _, _)
\* The check violations of the members i, i+1, ... of a union whose is
\* accepts the value, in declared order
AcceptingFrom(s, v, i) ==
  IF i > Len(s.members) THEN <<>>
  ELSE (IF Is(s.members[i], v) THEN Check(s.members[i], v).v ELSE <<>>)
         \o AcceptingFrom(s, v, i + 1)

\* C26: union.check(v) returns the violations of the union's own
\* constraints followed by the check violations of every member whose is
\* accepts v, in declared order, nothing from the members whose is rejects
\* it; union.test(v) is true exactly when that list is empty.
C26_UnionCheckAccepting ==
  /\ (op = "check" /\ schema.k = "union" /\ result.ok)
       => result.v = Schema_check(schema, input).v \o AcceptingFrom(schema, input, 1)
  /\ (op = "test" /\ schema.k = "union" /\ result.ok)
       => result.v = /\ Schema_check(schema, input).v = <<>>
                     /\ \A i \in DOMAIN schema.members :
                          Is(schema.members[i], input)
                            => Check(schema.members[i], input).v = <<>>

\* C26 witness: -1 violates the union's own minimum and the minimum of the
\* number member that accepts it, and the string member, whose own rule
\* -1 would violate too, rejects it and reports nothing
C26_Witness ==
  /\ op = "check"
  /\ schema = Rule(UnionSchema(<<Ranged, NonEmptyString>>), NumberMin(5))
  /\ input = Num(-1)
  /\ ~Is(NonEmptyString, input)
  /\ Check(NonEmptyString, input).v # <<>>
  /\ result.ok
  /\ Len(result.v) = 2
  /\ result.v[1] = ViolationOf(NumberMin(5))
  /\ result.v[2] = ViolationOf(NumberMin(0))

-----------------------------------------------------------------------------
(* Derived object schemas *)

\* C27: the schema pick, omit or extends returns from an object schema
\* still reports, in its check, every violation of a rule that was attached
\* to the original: a value that violates such a rule yields that violation
\* from the derived schema too.
C27_DerivedKeepsConstraints ==
  (op \in {"pick", "omit", "extends"}
     /\ Schema_check(schema, input).ok /\ Check(result.v, input).ok)
    => LET own == Schema_check(schema, input).v
           derived == Check(result.v, input).v
       IN \A i \in DOMAIN own : \E j \in DOMAIN derived : derived[j] = own[i]

-----------------------------------------------------------------------------
(* The promise schema *)

\* decode of promise(S) was called, the input has fulfilled with x, and
\* S.decode(x) returns
DecodeDue ==
  IF op = "decode" /\ schema.k = "promise" /\ Awaited(input).state = "fulfilled"
  THEN Decode(schema.schema, Awaited(input).value).ok
  ELSE FALSE

\* The Promise decode returned has fulfilled with S.decode(x)
DecodeDone ==
  IF DecodeDue
  THEN result = Ok(PromiseV(Fulfilled(Decode(schema.schema, Awaited(input).value).v)))
  ELSE FALSE

\* C23: an await has been evaluated exactly when decode or encode of a
\* promise schema was called (directly or by tryDecode / tryEncode), and
\* then exactly one: is, check, test and validate of every schema, and
\* decode and encode of the other schemas, never suspend.  The Promise that
\* decode (encode) of promise(S) returns stays pending until the input has
\* settled and is then settled with S.decode (S.encode) of the value the
\* input fulfilled with; once the input has fulfilled with x and
\* S.decode(x) returns, the returned Promise does fulfil with it.
C23_OnlyPromiseSuspends ==
  /\ [](/\ awaits = (IF op \in AsyncOps /\ schema.k = "promise" THEN 1 ELSE 0)
        /\ (op \in {"decode", "encode"} /\ schema.k = "promise")
             => LET p == Awaited(input)
                    q == result.v.p
                    out == IF op = "decode" THEN Decode(schema.schema, p.value)
                           ELSE Encode(schema.schema, p.value)
                IN /\ p = Pending => q = Pending
                   /\ q.state = "fulfilled"
                        => p.state = "fulfilled" /\ out = Ok(q.value)
                   /\ q.state = "rejected"
                        => \/ p = q
                           \/ p.state = "fulfilled" /\ out = Throw(q.reason))
  /\ (DecodeDue ~> DecodeDone)

\* C23 witness: promise(number()).decode(p) was called once, p fulfilled
\* with "1" and the returned Promise fulfilled with number().decode("1")
C23_Witness ==
  /\ op = "decode"
  /\ schema = PromiseSchema(NumberSchema)
  /\ input = PromiseV(Fulfilled(Str("1")))
  /\ awaits = 1
  /\ result = Ok(PromiseV(Fulfilled(Num(1))))

\* C28: check, test and validate of promise(S) on a Promise p report the
\* violations of the promise schema's own constraints only: no constraint
\* of S is evaluated on p, so none of S makes the result for p invalid.
C28_PromiseCheckSkipsInner ==
  (schema.k = "promise" /\ input.t = "promise")
    => /\ op = "check" => result = Schema_check(schema, input)
       /\ op = "test" => result = Ok(Schema_check(schema, input).v = <<>>)
       /\ op = "validate"
            => result.ok /\ (result.v.valid <=> Schema_check(schema, input).v = <<>>)

\* C29: tryDecode and tryEncode of a promise schema never hand the caller
\* a success result whose value is a Promise that rejects.
C29_TryShieldsPromise ==
  (op \in {"tryDecode", "tryEncode"} /\ schema.k = "promise" /\ result.success)
    => result.value.p.state # "rejected"

-----------------------------------------------------------------------------
(* The metadata store *)

RECURSIVE Chain(_, _)
\* An instance followed by its ancestors, nearest first
Chain(I, x) == IF x = 0 THEN <<>> ELSE <<x>> \o Chain(I, I[x].parent)

\* The value of the nearest instance of the chain of x that has one (a
\* stored undefined is no value), undefined if there is none
Nearest(I, M, x) ==
  LET chain == Chain(I, x)
      Has(n) == chain[n] \in DOMAIN M /\ M[chain[n]] # Undefined
      first == FirstIndex(Len(chain), Has)
  IN IF first = 0 THEN Undefined ELSE M[chain[first]]

\* C30: after every step get(x) is the value set directly on x if there
\* is one, else that of the nearest ancestor along the parent chain that
\* has one, else undefined; and a set on an instance leaves get of each of
\* its ancestors as it was.
C30_MetadataInherits ==
  [][/\ \A x \in DOMAIN insts' :
          Metadata_get(insts', store', x) = Nearest(insts', store', x)
     /\ recv'.method = "metadata.set" =>
          \A n \in 2..Len(Chain(insts, recv'.on)) :
            LET a == Chain(insts, recv'.on)[n]
            IN Metadata_get(insts', store', a) = Metadata_get(insts, store, a)]_vars

\* C30 witness: in a chain of three instances the first has the value "x",
\* the third was just given "y", and the second, which has none, answers the
\* value of the first
C30_Witness ==
  /\ recv.method = "metadata.set"
  /\ recv.on \in DOMAIN insts
  /\ Len(Chain(insts, recv.on)) = 3
  /\ LET chain == Chain(insts, recv.on)
     IN /\ chain[2] \notin DOMAIN store
        /\ WeakMap_get(store, chain[3]) = Str("x")
        /\ Metadata_get(insts, store, chain[1]) = Str("y")
        /\ Metadata_get(insts, store, chain[2]) = Str("x")
        /\ Metadata_get(insts, store, chain[3]) = Str("x")

====
